---- MODULE Spec2Model ----
(***************************************************************************)
(* A model of rplayer.py: the RadikoResolver (two-phase auth handshake,    *)
(* stream URL fallback chain) and the Player (station navigation, the      *)
(* single decoder subprocess, session persistence).                        *)
(*                                                                         *)
(* Three specifications share the variables:                               *)
(*   SpecAuth     RadikoResolver.auth_token / _auth_with_radiko, one       *)
(*                network request per step (single-threaded: no other      *)
(*                operation is enabled while a call is in progress);       *)
(*   SpecResolve  RadikoResolver.stream_url, one call per step;            *)
(*   Spec         the Player: construction, then one tick per step.        *)
(***************************************************************************)
EXTENDS Integers, Sequences, FiniteSets, TLC

VARIABLES
    \* RadikoResolver fields (src/rplayer.py:268-277)
    client,            \* self._client is not None
    station_map,       \* keys of self._station_map
    selected_id,       \* self._selected_id
    auth_token,        \* self._auth_token
    area_id,           \* self._area_id
    auth_headers,      \* self._auth_headers, a set of <<name, value>>
    stream_url_cache,  \* self._stream_url_cache
    requests_ok,       \* "import requests" succeeds in this installation
    \* the call in progress / the last call of a resolver operation
    pc,                \* position inside auth_token: idle, auth1, auth2, auth2get
    op,                \* the last public operation completed
    ret,               \* its return value
    raised,            \* TRUE iff it ended by an exception reaching the caller
    log,               \* the network requests it made, in order
    probed,            \* TRUE iff it read or called the native client
    prev_ret,          \* the return value of the auth_token call before it
    hs,                \* the handshake of the last auth_token call: none, ok, failed
    arg,               \* the station id the last stream_url call was given
    steps,             \* the steps of the fallback chain it attempted, in order
    \* locals of _auth_with_radiko
    h_i,               \* index of the candidate url of the current loop
    h_token, h_keylength, h_keyoffset, h_partial,
    first_full,        \* the first auth1 candidate that would answer with the
                       \* three headers (N1 + 1: none would)
    \* Player fields (src/rplayer.py:915-953)
    stations,          \* self._stations
    resolver,          \* self._resolver is not None
    index,             \* self._index (0-based, as in Python)
    mode,              \* self._mode
    world_station,     \* self._world_station
    world_history,     \* self._world_history
    world_index,       \* self._world_index
    shutdown_confirm_at, \* self._shutdown_confirm_at
    stream_cache,      \* self._stream_cache
    ffmpeg,            \* self._ffmpeg: the pid of the Popen handle, or None
    radiko_token,      \* self._radiko_token
    \* the world around the Player
    now,               \* time.time() at the last tick
    procs,             \* the pids of the decoder subprocesses that are live
    mpd,               \* the url the media daemon was last told to play
    state_file,        \* the content of state.json, NoFile if unreadable
    poweroff,          \* TRUE once "shutdown -h now" was spawned
    running,           \* main's loop flag
    \* the last tick that had something to do
    action,            \* the button action it polled
    events,            \* what it did to decoders and display, in order
    before,            \* the decoder that was live when its last
                       \* _start_current began
    lost,              \* live decoders whose handle was overwritten
    start_url,         \* the stream_url its last _start_current came to
    \* the programme catalogue of the resolver
    program_cache,     \* self._program_cache
    clock,             \* the time in Tokyo, in seconds
    programs,          \* what _get_programs gave the last current_program
    program,           \* what the last current_program returned
    \* the programme worker of the Player (src/rplayer.py:1107-1145)
    program_title,     \* self._program_title
    program_image_url, \* self._program_image_url
    program_image,     \* self._program_image: the url it was decoded
                       \* from, None if there is none
    program_fetching,  \* self._program_fetching
    program_lock,      \* who holds self._program_lock
    main_pc,           \* where the main thread is in _kick_program_update
    workers,           \* the worker threads alive: their position,
                       \* their station_id and their program
    \* the now-playing metadata of the Player
    last_meta,         \* self._last_meta: "", or what the title is of
    last_meta_at,      \* self._last_meta_at: 0, or 1 for the time of the
                       \* last refresh
    meta_left,         \* _last_meta and _last_meta_at as the _start_current
                       \* of the last tick left them
    \* one stream XML document in _stream_url_from_xml
    xml,               \* its url nodes, the playlist_urls made of them and
                       \* the calls of _fetch_playlist_m3u8
    \* the last _stop_ffmpeg of main (src/rplayer.py:1464)
    stopped,           \* the handle it found, how terminate, wait and kill
                       \* ended, the calls it made and what it raised
    \* the native client of the resolver
    client_station,    \* the station that is selected on the client
    select_log         \* the last call that came to _ensure_selected: its
                       \* station, whether the selection was skipped, and
                       \* the station the client had selected then

resolverVars == <<client, station_map, selected_id, auth_token, area_id,
                  auth_headers, stream_url_cache, requests_ok>>
frameVars == <<pc, op, ret, raised, log, probed, prev_ret, hs, arg, steps>>
handshakeVars == <<h_i, h_token, h_keylength, h_keyoffset, h_partial, first_full>>
playerVars == <<stations, resolver, index, mode, world_station, world_history,
                world_index, shutdown_confirm_at, stream_cache, ffmpeg,
                radiko_token, now, procs, mpd, state_file, poweroff, running,
                action, events, before, lost, start_url>>
programVars == <<program_cache, clock, programs, program>>
workerVars == <<program_title, program_image_url, program_image, program_fetching,
                program_lock, main_pc, workers>>
\* what the actions of the resolver and of the Player leave alone
metaVars == <<last_meta, last_meta_at, meta_left>>
xmlVars == <<xml>>
stopVars == <<stopped>>
selectVars == <<client_station, select_log>>
auxVars == <<programVars, workerVars, metaVars, xmlVars, stopVars, selectVars>>

(***************************************************************************)
(* Values                                                                  *)
(***************************************************************************)
\* Python's None. A str() of it would be the different string "None" in
\* Python; the model never builds that string.
None == "None"

\* bool(x) for x an Optional[str]
Truthy(s) == s # None /\ s # ""

NoCall == "NoCall"

\* The station ids of the model: the stations of the Player's list, all known
\* to the aggregator; a resolver's station map holds some of them.
StationIds == {"TBS", "QRR", "LFR"}

\* The urls of the model. Python looks inside a url with "in" and
\* endswith; the model answers from these tables.
MedialistUrl == "https://radiko.jp/v2/api/ts/medialist.m3u8"
XmlUrl(sid) ==
    CASE sid = "TBS" -> "https://f-radiko.smartstream.ne.jp/TBS/playlist.m3u8"
      [] sid = "QRR" -> "https://f-radiko.smartstream.ne.jp/QRR/playlist.m3u8"
      [] sid = "LFR" -> "https://f-radiko.smartstream.ne.jp/LFR/playlist.m3u8"
ClientUrl(sid) ==
    CASE sid = "TBS" -> "rtmpe://radiko.jp/TBS/stream"
      [] sid = "QRR" -> "rtmpe://radiko.jp/QRR/stream"
      [] sid = "LFR" -> "rtmpe://radiko.jp/LFR/stream"
\* "medialist" in url
HasMedialist_never(url) == FALSE
HasMedialist(url) == url = MedialistUrl

\* DEFAULT_RADIKO_AUTH1_URLS / DEFAULT_RADIKO_AUTH2_URLS, split on ","
AUTH1_URLS ==
    << "https://radiko.jp/v2/api/auth1", "https://radiko.jp/v2/api/auth1_fms",
       "http://radiko.jp/v2/api/auth1", "http://radiko.jp/v2/api/auth1_fms" >>
AUTH2_URLS ==
    << "https://radiko.jp/v2/api/auth2", "https://radiko.jp/v2/api/auth2_fms",
       "http://radiko.jp/v2/api/auth2", "http://radiko.jp/v2/api/auth2_fms" >>
N1 == Len(AUTH1_URLS)
N2 == Len(AUTH2_URLS)

\* DEFAULT_RADIKO_AUTHKEY.encode("ascii"), one element per byte
AUTHKEY ==
    << "b","c","d","1","5","1","0","7","3","c","0","3","b","3","5","2","e","1","e","f",
       "2","f","d","6","6","c","3","2","2","0","9","d","a","9","c","a","0","a","f","a" >>

\* int(s): the header values the model's servers send, and the one that
\* int() rejects with ValueError
IntLiterals == {"0", "1", "2"}
IsIntLiteral(s) == s \in IntLiterals
IntOf(s) == CASE s = "0" -> 0 [] s = "1" -> 1 [] s = "2" -> 2

Min(a, b) == IF a < b THEN a ELSE b
Max(a, b) == IF a > b THEN a ELSE b

\* seq[a:b] of Python: negative bounds count from the end, all bounds clamp
SliceBound(n, x) == IF x < 0 THEN Max(n + x, 0) ELSE Min(x, n)
PySlice(s, a, b) ==
    LET lo == SliceBound(Len(s), a)
        hi == SliceBound(Len(s), b)
    IN  IF lo < hi THEN SubSeq(s, lo + 1, hi) ELSE << >>

\* base64.b64encode(bytes).decode("ascii"): injective; the model keeps the
\* encoded bytes behind a tag instead of the base64 alphabet
B64(bytes) == <<"b64">> \o bytes

partial_key(keyoffset, keylength) ==
    LET offset == IntOf(keyoffset)
        length == IntOf(keylength)
    IN  B64(PySlice(AUTHKEY, offset, offset + length))

\* One entry of the log of a call.
\*   ph  1: an auth1 request, 2: an auth2 request
\*   i   index of the candidate url
\*   m   GET, POST
\*   st  HTTP status of the response, 0: the request raised a network error
\*   full  the response carried the three auth1 headers
\*   tok, pk  the X-Radiko-Authtoken and X-Radiko-Partialkey sent (auth2), or
\*            the token and <<keyoffset, keylength>> received (a full auth1)
Entry(ph, i, m, st, full, tok, pk) ==
    [ph |-> ph, i |-> i, m |-> m, st |-> st, full |-> full, tok |-> tok, pk |-> pk]

(***************************************************************************)
(* The environment of the handshake                                        *)
(***************************************************************************)
\* an auth1 response: err (requests.get raised) or the three headers, each
\* absent (None) or a string
ServerTokens == {"tokA", "tokB"}
Resp1 ==
    [err : {FALSE}, tok : ServerTokens \cup {None},
     kl : {None, "NaN", "2"}, ko : {None, "0", "1"}]
    \cup {[err |-> TRUE, tok |-> None, kl |-> None, ko |-> None]}
IsFull(r) == ~r.err /\ Truthy(r.tok) /\ Truthy(r.kl) /\ Truthy(r.ko)
\* responses that lack a header keep at most one kind of header, which is
\* enough to tell a stale local from a fresh one
Resp1NotFull ==
    {r \in Resp1 : ~IsFull(r) /\ (r.err \/ r.tok = None \/ (r.kl = None /\ r.ko = None))}
Resp1Full == {r \in Resp1 : IsFull(r)}

PostStatus == {0, 200, 404, 405, 500}
GetStatus == {0, 200, 404}
\* res2.text as its comma-separated fields
Bodies == {<< >>, <<"JP13", "tokyo">>, <<"OUT">>}

(***************************************************************************)
(* RadikoResolver: the probes of the native client                         *)
(***************************************************************************)
\* the values of the client's attributes whose name contains "token", in
\* dir() order ("" also stands for a value that is not a str)
AttrValue == {"", "tokC"}
AttrVals == {<< >>} \cup {<<a>> : a \in AttrValue} \cup {<<a, b>> : a, b \in AttrValue}
\* what each of client.auth / authorize / authenticate / get_token does:
\* absent (not callable), raise (or return something that is no non-empty
\* str, which the loop skips in the same way), or the token returned
METHOD_NAMES == <<"auth", "authorize", "authenticate", "get_token">>
MethOutcome == {"absent", "raise", "tokC"}
MethVals == [1..Len(METHOD_NAMES) -> MethOutcome]

\* ret: the first value that is a non-empty str; n: the attributes read
RECURSIVE AttrScan(_, _)
AttrScan(attrs, k) ==
    IF k > Len(attrs) THEN [ret |-> None, n |-> Len(attrs)]
    ELSE IF Truthy(attrs[k]) THEN [ret |-> attrs[k], n |-> k]
    ELSE AttrScan(attrs, k + 1)

_get_token_from_attrs(hasClient, attrs) ==
    IF ~hasClient THEN [ret |-> None, n |-> 0] ELSE AttrScan(attrs, 1)

\* ret: the first non-empty str a callable returns (one that raises is
\* skipped); n: the calls made
RECURSIVE MethScan(_, _, _)
MethScan(meths, k, n) ==
    IF k > Len(METHOD_NAMES) THEN [ret |-> None, n |-> n]
    ELSE IF meths[k] = "absent" THEN MethScan(meths, k + 1, n)
    ELSE IF meths[k] # "raise" /\ Truthy(meths[k]) THEN [ret |-> meths[k], n |-> n + 1]
    ELSE MethScan(meths, k + 1, n + 1)

_get_token_from_methods(hasClient, meths) ==
    IF ~hasClient THEN [ret |-> None, n |-> 0] ELSE MethScan(meths, 1, 0)

(***************************************************************************)
(* RadikoResolver.auth_token and _auth_with_radiko                         *)
(***************************************************************************)
\* auth_token up to the call of _auth_with_radiko: done (with the token to
\* cache and return) or not, and whether the client was probed
auth_token_probe_always(cur, hasClient, attrs, meths) ==
    LET a == _get_token_from_attrs(hasClient, attrs)
        m == _get_token_from_methods(hasClient, meths)
    IN  IF Truthy(a.ret) THEN [done |-> TRUE, token |-> a.ret, probed |-> a.n > 0]
        ELSE IF Truthy(m.ret) THEN [done |-> TRUE, token |-> m.ret, probed |-> a.n + m.n > 0]
        ELSE IF Truthy(cur) THEN [done |-> TRUE, token |-> cur, probed |-> a.n + m.n > 0]
        ELSE [done |-> FALSE, token |-> None, probed |-> a.n + m.n > 0]

auth_token_head(cur, hasClient, attrs, meths) ==
    IF Truthy(cur) THEN [done |-> TRUE, token |-> cur, probed |-> FALSE]
    ELSE LET a == _get_token_from_attrs(hasClient, attrs)
         IN  IF Truthy(a.ret) THEN [done |-> TRUE, token |-> a.ret, probed |-> a.n > 0]
             ELSE LET m == _get_token_from_methods(hasClient, meths)
                  IN  IF Truthy(m.ret)
                      THEN [done |-> TRUE, token |-> m.ret, probed |-> a.n + m.n > 0]
                      ELSE [done |-> FALSE, token |-> None, probed |-> a.n + m.n > 0]

\* auth_token after _auth_with_radiko returned token: the new self._auth_token,
\* which is what auth_token returns
auth_token_tail(cur, token) == IF Truthy(token) THEN token ELSE cur

\* the condition of the break of the auth1 loop and of the check after it
auth1_has_headers(token, keylength, keyoffset) ==
    Truthy(token) /\ Truthy(keylength) /\ Truthy(keyoffset)

\* "except Exception: return None" around both phases
handshake_except_propagates == [ret |-> None, raised |-> TRUE]
handshake_except == [ret |-> None, raised |-> FALSE]

\* the check after the auth2 loop: TRUE when the handshake gives up
auth2_failed_never(st) == FALSE
auth2_failed(st) == st # 200

\* the region id of the auth2 response body. The fallback pattern of the
\* source, r"JP\\d{2}", asks for a literal backslash after JP and matches
\* none of the model's bodies.
StartsWithJP(s) == s \in {"JP13"}
parse_area(body) ==
    IF body = << >> THEN None
    ELSE IF StartsWithJP(body[1]) THEN body[1] ELSE None

\* the app, device and browser headers, the same in every request
STATIC_HEADERS ==
    { <<"X-Radiko-App", "pc_html5">>, <<"X-Radiko-Device", "pc">>,
      <<"X-Radiko-User", "dummy_user">> }

build_auth_headers(token, partial, area) ==
    STATIC_HEADERS
    \cup { <<"X-Radiko-Authtoken", token>>, <<"X-Radiko-AuthToken", token>>,
           <<"X-Radiko-Partialkey", partial>> }
    \cup (IF Truthy(area) THEN { <<"X-Radiko-AreaId", area>> } ELSE {})

ResetLocals ==
    /\ h_i' = 0
    /\ h_token' = None
    /\ h_keylength' = None
    /\ h_keyoffset' = None
    /\ h_partial' = << >>

\* _auth_with_radiko ends without a token, by "return None" or by an
\* exception (exc), and auth_token ends after it
HandshakeFails(exc) ==
    LET h == IF exc THEN handshake_except ELSE [ret |-> None, raised |-> FALSE]
    IN  /\ pc' = "idle"
        /\ op' = "auth_token"
        /\ hs' = "failed"
        /\ raised' = h.raised
        /\ auth_token' = IF h.raised THEN auth_token ELSE auth_token_tail(auth_token, h.ret)
        /\ ret' = IF h.raised THEN None ELSE auth_token'
        /\ ResetLocals
        /\ UNCHANGED <<area_id, auth_headers, first_full, prev_ret, probed>>

\* _auth_with_radiko after an auth2 response of status 200 with this body,
\* and auth_token after it
HandshakeSucceeds(body) ==
    LET area == parse_area(body)
        newArea == IF Truthy(area) THEN area ELSE area_id
    IN  /\ pc' = "idle"
        /\ op' = "auth_token"
        /\ hs' = "ok"
        /\ raised' = FALSE
        /\ area_id' = newArea
        /\ auth_headers' = build_auth_headers(h_token, h_partial, newArea)
        /\ auth_token' = auth_token_tail(auth_token, h_token)
        /\ ret' = auth_token'
        /\ ResetLocals
        /\ UNCHANGED <<first_full, prev_ret, probed>>

\* auth_token(): the cache, the probes, and the start of the handshake
AuthTokenCall ==
    /\ pc = "idle"
    /\ \E p \in {auth_token_head(auth_token, client, attrs, meths) :
                     attrs \in AttrVals, meths \in MethVals} :
             /\ prev_ret' = IF op = "auth_token" THEN ret ELSE NoCall
             /\ log' = << >>
             /\ probed' = p.probed
             /\ IF p.done
                THEN /\ auth_token' = p.token
                     /\ ret' = p.token
                     /\ raised' = FALSE
                     /\ op' = "auth_token"
                     /\ hs' = "none"
                     /\ UNCHANGED <<pc, handshakeVars, area_id, auth_headers>>
                ELSE IF ~requests_ok
                THEN \* "import requests" fails: return None
                     /\ auth_token' = auth_token_tail(auth_token, None)
                     /\ ret' = auth_token'
                     /\ raised' = FALSE
                     /\ op' = "auth_token"
                     /\ hs' = "failed"
                     /\ UNCHANGED <<pc, handshakeVars, area_id, auth_headers>>
                ELSE /\ pc' = "auth1"
                     /\ h_i' = 1
                     /\ first_full' \in 1..(N1 + 1)
                     /\ hs' = "none"
                     /\ UNCHANGED <<auth_token, ret, raised, op, area_id, auth_headers,
                                    h_token, h_keylength, h_keyoffset, h_partial>>
    /\ UNCHANGED <<client, station_map, selected_id, stream_url_cache, requests_ok>>

\* one iteration of the auth1 loop, and what follows it when the loop ends
Auth1Request ==
    /\ pc = "auth1"
    /\ \E r \in (IF h_i = first_full THEN Resp1Full ELSE Resp1NotFull) :
         /\ log' = Append(log, Entry(1, h_i, "GET", IF r.err THEN 0 ELSE 200, IsFull(r),
                                     IF IsFull(r) THEN r.tok ELSE None,
                                     IF IsFull(r) THEN <<r.ko, r.kl>> ELSE << >>))
         /\ IF r.err
            THEN HandshakeFails(TRUE)
            ELSE IF auth1_has_headers(r.tok, r.kl, r.ko)
            THEN IF IsIntLiteral(r.ko) /\ IsIntLiteral(r.kl)
                 THEN /\ pc' = "auth2"
                      /\ h_i' = 1
                      /\ h_token' = r.tok
                      /\ h_keylength' = r.kl
                      /\ h_keyoffset' = r.ko
                      /\ h_partial' = partial_key(r.ko, r.kl)
                      /\ UNCHANGED <<op, ret, raised, prev_ret, probed, hs, first_full,
                                     auth_token, area_id, auth_headers>>
                 ELSE \* int() raises ValueError
                      HandshakeFails(TRUE)
            ELSE IF h_i < N1
            THEN /\ h_i' = h_i + 1
                 /\ h_token' = r.tok
                 /\ h_keylength' = r.kl
                 /\ h_keyoffset' = r.ko
                 /\ UNCHANGED <<pc, op, ret, raised, prev_ret, probed, hs, first_full, h_partial,
                                auth_token, area_id, auth_headers>>
            ELSE \* the candidates are exhausted: return None
                 HandshakeFails(FALSE)
    /\ UNCHANGED <<client, station_map, selected_id, stream_url_cache, requests_ok>>

\* the response to this candidate is final: break on 200, else the next
\* candidate, else the check after the loop
Auth2Response(st) ==
    IF st = 200
    THEN \E body \in Bodies : HandshakeSucceeds(body)
    ELSE IF h_i < N2
    THEN /\ pc' = "auth2"
         /\ h_i' = h_i + 1
         /\ UNCHANGED <<op, ret, raised, prev_ret, probed, hs, first_full, h_token, h_keylength,
                        h_keyoffset, h_partial, auth_token, area_id, auth_headers>>
    ELSE IF auth2_failed(st) THEN HandshakeFails(FALSE)
    ELSE \E body \in Bodies : HandshakeSucceeds(body)

\* requests.post to the current auth2 candidate
Auth2Post ==
    /\ pc = "auth2"
    /\ \E st \in PostStatus :
         /\ log' = Append(log, Entry(2, h_i, "POST", st, FALSE, h_token, h_partial))
         /\ IF st = 0 THEN HandshakeFails(TRUE)
            ELSE IF st \in {404, 405}
            THEN /\ pc' = "auth2get"
                 /\ UNCHANGED <<op, ret, raised, prev_ret, probed, hs, handshakeVars,
                                auth_token, area_id, auth_headers>>
            ELSE Auth2Response(st)
    /\ UNCHANGED <<client, station_map, selected_id, stream_url_cache, requests_ok>>

\* requests.get to the same candidate, after its POST answered 404 or 405
Auth2Get ==
    /\ pc = "auth2get"
    /\ \E st \in GetStatus :
         /\ log' = Append(log, Entry(2, h_i, "GET", st, FALSE, h_token, h_partial))
         /\ IF st = 0 THEN HandshakeFails(TRUE) ELSE Auth2Response(st)
    /\ UNCHANGED <<client, station_map, selected_id, stream_url_cache, requests_ok>>

(***************************************************************************)
(* RadikoResolver.stream_url                                               *)
(*                                                                         *)
(* A call is one step. An operator of this section gives the SET of the    *)
(* outcomes its code can have, one for each behaviour of the network and   *)
(* of the native client.                                                   *)
(***************************************************************************)
\* the resolver's fields as one value
Resolver ==
    [client |-> client, station_map |-> station_map, selected_id |-> selected_id,
     auth_token |-> auth_token, area_id |-> area_id, auth_headers |-> auth_headers,
     cache |-> stream_url_cache, requests_ok |-> requests_ok,
     selected |-> client_station]

\* a whole auth_token() call: what SpecAuth does one request at a time, with
\* one token, offset and length for the handshake that succeeds
auth_token_call(r) ==
    IF Truthy(r.auth_token) THEN {[r |-> r, ret |-> r.auth_token]}
    ELSE {[r |-> r, ret |-> auth_token_tail(r.auth_token, None)]}
         \cup (IF r.client
               THEN {[r |-> [r EXCEPT !.auth_token = "tokC"], ret |-> "tokC"]}
               ELSE {})
         \cup (IF r.requests_ok
               THEN { LET area == parse_area(body)
                          newArea == IF Truthy(area) THEN area ELSE r.area_id
                          token == auth_token_tail(r.auth_token, "tokA")
                      IN  [r |-> [r EXCEPT !.auth_token = token,
                                           !.area_id = newArea,
                                           !.auth_headers =
                                               build_auth_headers("tokA", partial_key("0", "2"),
                                                                  newArea)],
                           ret |-> token]
                      : body \in {<<"JP13", "tokyo">>} }
               ELSE {})

\* what the requests of _stream_url_from_xml come to: an exception (caught
\* by its own except), no url in any answer, or the url found
XmlOutcomes(sid) == {"raise", "nourl", XmlUrl(sid), MedialistUrl}

_stream_url_from_xml(r, sid) ==
    IF ~r.requests_ok THEN {[r |-> r, ret |-> None, caught |-> FALSE]}
    ELSE UNION { { [r |-> a.r,
                    ret |-> IF x \in {"raise", "nourl"} THEN None ELSE x,
                    caught |-> x = "raise"] : x \in XmlOutcomes(sid) }
                 : a \in auth_token_call(r) }

\* ok: the select call the client offers exists and does not raise
_select_station(r, ok) == IF ~r.client THEN FALSE ELSE ok

\* station.select(), or the select call of the client, has returned: the
\* client has the station selected (r.selected; a call that raises or that
\* the client does not offer leaves its selection as it was)
selected_on_client(r, sid) == [r EXCEPT !.selected = sid]

_ensure_selected(r, sid, ok) ==
    IF r.selected_id = sid THEN r
    ELSE IF _select_station(r, ok)
    THEN [selected_on_client(r, sid) EXCEPT !.selected_id = sid]
    ELSE r

\* The accessors _get_stream_from_station tries, in its order:
\*   a1 station.get_stream_url()    a2 station.stream_url
\*   a3 client.get_stream_url(id)   a4 station.get_stream()
\*   a5 client.get_stream(station)  a6 client.get_stream()
\*   a7 client.get_stream(id)
\* each absent, raising, or giving a url ("" for a2: an empty attribute).
Raises == {"NotSelectedError", "Exception"}
AccVals ==
    [a1 : {"absent", "url"} \cup Raises, a2 : {"absent", "", "url"},
     a3 : {"absent", "url"} \cup Raises, a4 : {"absent", "url"} \cup Raises,
     a5 : {"url"} \cup Raises, a6 : {"TypeError", "url"} \cup Raises,
     a7 : {"TypeError", "url"} \cup Raises]

GotUrl == [kind |-> "url", exc |-> None]
GotRaise(e) == [kind |-> "raise", exc |-> e]

_get_stream_from_station(acc) ==
    IF acc.a1 = "url" THEN GotUrl
    ELSE IF acc.a2 = "url" THEN GotUrl
    ELSE IF acc.a3 = "url" THEN GotUrl
    ELSE IF acc.a4 = "url" THEN GotUrl
    ELSE IF acc.a5 = "url" THEN GotUrl
    ELSE IF acc.a6 = "url" THEN GotUrl
    ELSE IF acc.a6 # "TypeError" THEN GotRaise(acc.a6)
    ELSE IF acc.a7 = "url" THEN GotUrl
    ELSE GotRaise(acc.a7)

GetStreamResults == {_get_stream_from_station(acc) : acc \in AccVals}

_maybe_retry_after_select(r, exc, ok) ==
    IF exc = "NotSelectedError" THEN _select_station(r, ok) ELSE FALSE

\* one step of the chain: cache, xml, client, retry, raw; and how it ended:
\* hit (a url), none, raise (an exception, caught)
Step(name, out) == [step |-> name, out |-> out]
SOut(r, url, exc, st) == [r |-> r, ret |-> url, raised |-> exc, steps |-> st]

\* "except Exception as exc3" around client.get_stream(station_id)
raw_except_propagates(r, st) == SOut(r, None, TRUE, st)
raw_except(r, st) == SOut(r, None, FALSE, st)

\* the raw identifier fallback and the "return None" after it
stream_url_raw(r, sid, st) ==
    { SOut(r, ClientUrl(sid), FALSE, Append(st, Step("raw", "hit"))),
      raw_except(r, Append(st, Step("raw", "raise"))) }

\* after _get_stream_from_station gave g
stream_url_client(r, sid, g, st) ==
    IF g.kind = "url"
    THEN {SOut(r, ClientUrl(sid), FALSE, Append(st, Step("client", "hit")))}
    ELSE LET st3 == Append(st, Step("client", "raise"))
         IN  UNION { IF _maybe_retry_after_select(r, g.exc, ok)
                     THEN UNION { IF g2.kind = "url"
                                  THEN {SOut(selected_on_client(r, sid), ClientUrl(sid),
                                             FALSE, Append(st3, Step("retry", "hit")))}
                                  ELSE stream_url_raw(selected_on_client(r, sid), sid,
                                                      Append(st3, Step("retry", "raise")))
                                  : g2 \in GetStreamResults }
                     ELSE stream_url_raw(r, sid, st3)
                     : ok \in BOOLEAN }

\* after _stream_url_from_xml gave x
stream_url_after_xml(r, sid, x, st) ==
    IF Truthy(x.ret)
    THEN {SOut([r EXCEPT !.cache[sid] = IF HasMedialist(x.ret) THEN @ ELSE x.ret],
               x.ret, FALSE, Append(st, Step("xml", "hit")))}
    ELSE LET st2 == Append(st, Step("xml", IF x.caught THEN "raise" ELSE "none"))
         IN  IF sid \notin r.station_map
             THEN {SOut(r, None, FALSE, st2)}
             ELSE UNION { stream_url_client(_ensure_selected(r, sid, ok), sid, g, st2)
                          : ok \in BOOLEAN, g \in GetStreamResults }

stream_url(r, sid) ==
    IF ~r.client THEN {SOut(r, None, FALSE, << >>)}
    ELSE LET cached == r.cache[sid]
         IN  IF Truthy(cached) /\ ~HasMedialist(cached)
             THEN {SOut(r, cached, FALSE, <<Step("cache", "hit")>>)}
             ELSE UNION { stream_url_after_xml(x.r, sid, x, <<Step("cache", "none")>>)
                          : x \in _stream_url_from_xml(r, sid) }

\* station.get_on_air(): an object with a title or with none, or an
\* exception
OnAirResults ==
    {[kind |-> "title", exc |-> None], [kind |-> "empty", exc |-> None]}
    \cup {GotRaise(e) : e \in Raises}

OnAirTitle(sid, g) == IF g.kind = "title" THEN sid ELSE None

on_air_title(r, sid) ==
    IF sid \notin r.station_map THEN {[r |-> r, ret |-> None]}
    ELSE UNION {
           LET r1 == _ensure_selected(r, sid, ok)
           IN  IF g.kind # "raise" THEN {[r |-> r1, ret |-> OnAirTitle(sid, g)]}
               ELSE UNION { IF _maybe_retry_after_select(r1, g.exc, ok2)
                            THEN { [r |-> selected_on_client(r1, sid),
                                    ret |-> OnAirTitle(sid, g2)]
                                   : g2 \in OnAirResults }
                            ELSE {[r |-> r1, ret |-> None]}
                            : ok2 \in BOOLEAN }
           : ok \in BOOLEAN, g \in OnAirResults }

SetResolver(r) ==
    /\ selected_id' = r.selected_id
    /\ auth_token' = r.auth_token
    /\ area_id' = r.area_id
    /\ auth_headers' = r.auth_headers
    /\ stream_url_cache' = r.cache
    /\ UNCHANGED <<client, station_map, requests_ok>>

StreamUrlCall ==
    /\ pc = "idle"
    /\ \E sid \in StationIds :
         \E o \in stream_url(Resolver, sid) :
             /\ SetResolver(o.r)
             /\ op' = "stream_url"
             /\ arg' = sid
             /\ ret' = o.ret
             /\ raised' = o.raised
             /\ steps' = o.steps
    /\ UNCHANGED <<pc, log, probed, prev_ret, hs, handshakeVars, playerVars, auxVars>>

(***************************************************************************)
(* Player                                                                  *)
(*                                                                         *)
(* The display, the titles and the programme images are not part of the    *)
(* model. As in the resolver, an operator gives the set of the outcomes    *)
(* its code can have.                                                      *)
(***************************************************************************)
DEFAULT_REFRESH_SEC == 1
DEFAULT_SHUTDOWN_CONFIRM_SEC == 10

\* the longest history of world stations
MaxHistory == 1

\* a station of the stations file: the files of the model name a station by
\* its id and give no image
Station(id, url) == [id |-> id, name |-> id, stream_url |-> url, image_url |-> ""]

\* Station(id=name, name=name, stream_url=url, image_url=image_url), as the
\* directory and _load_state construct it
WorldStation(name, url, image_url) ==
    [id |-> name, name |-> name, stream_url |-> url, image_url |-> image_url]

\* str.strip() on the strings of the model
Strip(str) ==
    CASE str = " Jazz24 " -> "Jazz24"
      [] str = " LFR " -> "LFR"
      [] str = " world" -> "world"
      [] OTHER -> str

\* None where the code holds an Optional[Station], an Optional[float] and a
\* file that cannot be read: values of the kind of the others
NoStation == Station("", "")
NoTime == -1
NoFile == [mode |-> "<unreadable>", station_id |-> "", world_name |-> "",
           world_url |-> "", world_image_url |-> ""]

\* the pids the system hands out
Pids == {"pid1", "pid2", "pid3", "pid4"}

\* what WorldRadioResolver.random_station can give: a name and a url, never
\* empty
WorldStations ==
    { WorldStation("Jazz24", "http://jazz.example/live.mp3", "") }

\* the HLS stream of a station that is not the aggregator's
PublicHlsUrl == "https://hls.example/live.m3u8"

\* url.endswith(".m3u8")
EndsWithM3u8(url) ==
    url \in {MedialistUrl, PublicHlsUrl} \cup {XmlUrl(sid) : sid \in StationIds}

\* "radiko" in url or "smartstream" in url
IsRadikoUrl(url) ==
    url \in {MedialistUrl} \cup {XmlUrl(sid) : sid \in StationIds}
                           \cup {ClientUrl(sid) : sid \in StationIds}

\* The stations files of the model. An entry without stream_url, as in the
\* file main writes from the aggregator's station map, is resolved when it
\* is played; the others carry the url of a plain stream and of an HLS
\* playlist.
StationLists ==
    { << Station("TBS", "") >>,
      << Station("TBS", ""), Station("QRR", "http://qrr.example/live.mp3"),
         Station("LFR", XmlUrl("LFR")) >> }

\* a % n of Python, n > 0: the result is in 0..n-1 for a negative a too
PyMod(a, n) == ((a % n) + n) % n

\* list[i] of Python: a negative i counts from the end
PyItem(list, i) == IF i < 0 THEN list[Len(list) + i + 1] ELSE list[i + 1]

\* the Player's fields, the world's and the resolver's as one value
Player ==
    [stations |-> stations, resolver |-> resolver, index |-> index, mode |-> mode,
     world_station |-> world_station, world_history |-> world_history,
     world_index |-> world_index, shutdown_confirm_at |-> shutdown_confirm_at,
     stream_cache |-> stream_cache, ffmpeg |-> ffmpeg, radiko_token |-> radiko_token,
     now |-> now, procs |-> procs, mpd |-> mpd, state_file |-> state_file,
     poweroff |-> poweroff, running |-> running, action |-> action,
     events |-> events, before |-> before, lost |-> lost, start_url |-> start_url,
     r |-> Resolver]

SetPlayer(p) ==
    /\ stations' = p.stations
    /\ resolver' = p.resolver
    /\ index' = p.index
    /\ mode' = p.mode
    /\ world_station' = p.world_station
    /\ world_history' = p.world_history
    /\ world_index' = p.world_index
    /\ shutdown_confirm_at' = p.shutdown_confirm_at
    /\ stream_cache' = p.stream_cache
    /\ ffmpeg' = p.ffmpeg
    /\ radiko_token' = p.radiko_token
    /\ now' = p.now
    /\ procs' = p.procs
    /\ mpd' = p.mpd
    /\ state_file' = p.state_file
    /\ poweroff' = p.poweroff
    /\ running' = p.running
    /\ action' = p.action
    /\ events' = p.events
    /\ before' = p.before
    /\ lost' = p.lost
    /\ start_url' = p.start_url
    /\ SetResolver(p.r)

Ev(p, e) == [p EXCEPT !.events = Append(@, e)]

current_station(p) ==
    IF p.mode = "world" /\ p.world_station # NoStation
    THEN p.world_station
    ELSE PyItem(p.stations, p.index)

\* How the lifecycle calls of _stop_ffmpeg end: terminate() returns or
\* raises, the wait of two seconds returns or raises TimeoutExpired, kill()
\* returns or raises.
StopOutcomes == [terminate : {"ok", "raise"}, wait : {"ok", "timeout"},
                 kill : {"ok", "raise"}]
NoOutcome == [terminate |-> "ok", wait |-> "ok", kill |-> "ok"]

\* the exception that leaves the try block, None if there is none
stop_try(o) ==
    IF o.terminate = "raise" THEN "OSError"
    ELSE IF o.wait = "timeout" THEN "TimeoutExpired"
    ELSE None

\* "except Exception: pass" around kill(): what leaves it of an exception
kill_except_propagates(exc) == exc
kill_except(exc) == None

\* _stop_ffmpeg with the outcomes o: the Player it leaves, the calls it
\* made on the handle, and the exception that leaves it. A decoder that
\* was terminated or killed is no longer live; a kill() that raises found
\* the process gone. The handle is cleared on every path (finally).
stop_ffmpeg_run(p, o) ==
    IF p.ffmpeg = None
    THEN [p |-> Ev(p, "stop"), calls |-> << >>, raised |-> None]
    ELSE LET exc == stop_try(o)
             waited == o.terminate = "ok"
             killed == exc # None
         IN  [p |-> [p EXCEPT !.events = @ \o (IF killed
                                               THEN <<"stop", "terminate", "kill">>
                                               ELSE <<"stop", "terminate">>),
                              !.procs = @ \ {p.ffmpeg},
                              !.ffmpeg = None],
              calls |-> <<"terminate">> \o (IF waited THEN <<"wait">> ELSE << >>)
                                        \o (IF killed THEN <<"kill">> ELSE << >>),
              raised |-> IF killed /\ o.kill = "raise"
                         THEN kill_except("OSError") ELSE None]

_stop_ffmpeg_skipped(p) == {p}
_stop_ffmpeg(p) == { stop_ffmpeg_run(p, o).p : o \in StopOutcomes }

\* subprocess.Popen(cmd) and the assignment to self._ffmpeg; the pid is one
\* that no live process has and that no decoder of this tick had
Popen(p, e) ==
    LET pid == CHOOSE n \in Pids : n \notin p.procs \cup {p.ffmpeg, p.before}
    IN  [p EXCEPT !.lost = IF p.ffmpeg # None /\ p.ffmpeg \in p.procs
                           THEN @ \cup {p.ffmpeg} ELSE @,
                  !.ffmpeg = pid,
                  !.procs = @ \cup {pid},
                  !.events = Append(@, e)]

\* the headers come from resolver.auth_headers(), which calls auth_token()
_start_ffmpeg(p, url, token) ==
    IF p.resolver
    THEN { Popen([p EXCEPT !.r = a.r], "ffmpeg") : a \in auth_token_call(p.r) }
    ELSE { Popen(p, "ffmpeg") }

_start_ffmpeg_plain_queued(p, url) == { [Ev(p, "mpc") EXCEPT !.mpd = url] }
_start_ffmpeg_plain(p, url) == { Popen(p, "ffmpeg_plain") }

\* mpc clear, add, play
play_stream(p, url) == { [Ev(p, "mpc") EXCEPT !.mpd = url] }

\* "stream_url.endswith(".m3u8") and not self._radiko_token"
token_missing_never(p, url) == FALSE
token_missing(p, url) == EndsWithM3u8(url) /\ ~Truthy(p.radiko_token)

\* _start_current from "self._stop_ffmpeg()" on
start_after_stop(p, url) ==
    LET is_radiko_stream == p.resolver /\ IsRadikoUrl(url) /\ p.mode = "radiko"
    IN  IF token_missing(p, url)
        THEN {Ev(p, "radiko token missing")}
        ELSE IF p.mode = "world"
        THEN _start_ffmpeg_plain(p, url)
        ELSE IF Truthy(p.radiko_token) /\ (EndsWithM3u8(url) \/ is_radiko_stream)
        THEN _start_ffmpeg(p, url, p.radiko_token)
        ELSE play_stream(p, url)

\* _start_current from "if not stream_url" on
start_with_url(p, url) ==
    IF ~Truthy(url)
    THEN {Ev(p, "stream_url missing")}
    ELSE UNION { start_after_stop(q, url) : q \in _stop_ffmpeg(p) }

\* the stream url of _start_current: the station's own, the Player's
\* cached one, or the resolver's
start_resolve(p) ==
    LET station == current_station(p)
    IN  IF Truthy(station.stream_url) \/ ~p.resolver
        THEN {[p |-> p, url |-> station.stream_url]}
        ELSE LET cached == p.stream_cache[station.id]
             IN  IF Truthy(cached) /\ ~HasMedialist(cached)
                 THEN {[p |-> p, url |-> cached]}
                 ELSE { [p |-> [p EXCEPT !.r = o.r,
                                        !.stream_cache[station.id] =
                                            IF Truthy(o.ret) /\ ~HasMedialist(o.ret)
                                            THEN o.ret ELSE @],
                         url |-> o.ret]
                        : o \in stream_url(p.r, station.id) }

_start_current(p) ==
    LET p0 == [p EXCEPT !.before = IF p.ffmpeg \in p.procs THEN p.ffmpeg ELSE None,
                        !.events = Append(@, "start")]
    IN  UNION { start_with_url([x.p EXCEPT !.start_url = x.url], x.url)
                : x \in start_resolve(p0) }

\* What the write of state.json comes to. A write that fails leaves the
\* Player as a write that succeeds does; the model writes.
SaveWays == {"written"}

\* the file as the json it holds, with "" for a key that it does not hold:
\* the keys of the station ws are written when there is one
StateData(m, sid, ws) ==
    [mode |-> m, station_id |-> sid, world_name |-> ws.name,
     world_url |-> ws.stream_url, world_image_url |-> ws.image_url]

_save_state(p, sv) ==
    LET data == IF p.mode = "radiko"
                THEN StateData(p.mode, current_station(p).id, NoStation)
                ELSE StateData(p.mode, "", p.world_station)
    IN  [p EXCEPT !.state_file = IF sv = "written" THEN data ELSE @]

SaveAll_skipped(ps, sv) == ps
SaveAll(ps, sv) == { _save_state(q, sv) : q \in ps }

_world_next_always_new(p, rnd, sv) ==
    IF rnd = NoStation THEN {p}
    ELSE SaveAll(_start_current([p EXCEPT !.world_history = Append(@, rnd),
                                          !.world_index = Len(p.world_history),
                                          !.world_station = rnd]), sv)

\* rnd: what self._world.random_station() gives, NoStation when it has none
_world_next(p, rnd, sv) ==
    IF p.world_index + 1 < Len(p.world_history)
    THEN SaveAll(_start_current([p EXCEPT !.world_index = @ + 1,
                                          !.world_station =
                                              p.world_history[p.world_index + 2]]), sv)
    ELSE IF rnd = NoStation THEN {p}
    ELSE SaveAll(_start_current([p EXCEPT !.world_history = Append(@, rnd),
                                          !.world_index = Len(p.world_history),
                                          !.world_station = rnd]), sv)

_world_prev(p, rnd, sv) ==
    IF p.world_index > 0
    THEN SaveAll(_start_current([p EXCEPT !.world_index = @ - 1,
                                          !.world_station =
                                              p.world_history[p.world_index]]), sv)
    ELSE _world_next(p, rnd, sv)

next_index_by_two(i, n) == PyMod(i + 2, n)
next_index(i, n) == PyMod(i + 1, n)

prev_index_no_modulo(i, n) == i - 1
prev_index(i, n) == PyMod(i - 1, n)

next_station_unguarded(p, rnd, sv) ==
    IF p.mode = "world" THEN _world_next(p, rnd, sv)
    ELSE SaveAll(_start_current([p EXCEPT !.index = next_index(@, Len(p.stations))]), sv)
next_station(p, rnd, sv) ==
    IF p.mode = "world" THEN _world_next(p, rnd, sv)
    ELSE IF Len(p.stations) < 2 THEN {Ev(p, "Only one station")}
    ELSE SaveAll(_start_current([p EXCEPT !.index = next_index(@, Len(p.stations))]), sv)

prev_station(p, rnd, sv) ==
    IF p.mode = "world" THEN _world_prev(p, rnd, sv)
    ELSE IF Len(p.stations) < 2 THEN {Ev(p, "Only one station")}
    ELSE SaveAll(_start_current([p EXCEPT !.index = prev_index(@, Len(p.stations))]), sv)

_toggle_mode_always_asks(p, rnd, sv) ==
    LET toggled == IF p.mode = "radiko"
                   THEN _world_next([p EXCEPT !.mode = "world"], rnd, sv)
                   ELSE {[p EXCEPT !.mode = "radiko"]}
    IN  SaveAll(UNION { _start_current(q) : q \in toggled }, sv)
_toggle_mode(p, rnd, sv) ==
    LET toggled == IF p.mode = "radiko"
                   THEN IF p.world_station = NoStation
                        THEN _world_next([p EXCEPT !.mode = "world"], rnd, sv)
                        ELSE {[p EXCEPT !.mode = "world"]}
                   ELSE {[p EXCEPT !.mode = "radiko"]}
    IN  SaveAll(UNION { _start_current(q) : q \in toggled }, sv)

\* Popen(["sudo", "shutdown", "-h", "now"]); an exception of it is ignored
_shutdown_now(p) == {[p EXCEPT !.poweroff = TRUE], p}

\* tick after the confirmation of a shutdown was dealt with
tick_action(p, act, rnd, sv) ==
    CASE act = "prev" -> prev_station(p, rnd, sv)
      [] act = "next" -> next_station(p, rnd, sv)
      [] act = "mode" -> _toggle_mode(p, rnd, sv)
      [] act = "shutdown" -> {Ev([p EXCEPT !.shutdown_confirm_at = p.now], "Shutdown?")}
      [] OTHER -> {p}

\* time.time() at a tick d seconds after the last one. The code uses the
\* clock only in its distance to _shutdown_confirm_at: the clock of the
\* model stands at 0 while no confirmation is pending, and stops when the
\* pending one has expired.
Clock(p, d) ==
    IF p.shutdown_confirm_at = NoTime THEN 0
    ELSE Min(p.now + d, p.shutdown_confirm_at + DEFAULT_SHUTDOWN_CONFIRM_SEC)

\* "self._shutdown_confirm_at = None" in tick
confirm_cleared(p) == [p EXCEPT !.shutdown_confirm_at = NoTime, !.now = 0]

\* "action = None" after the confirmation was cancelled
consumed_kept(act) == act
consumed(act) == None

\* "time.time() - self._shutdown_confirm_at >= DEFAULT_SHUTDOWN_CONFIRM_SEC"
expired_never(p) == FALSE
expired(p) == p.now - p.shutdown_confirm_at >= DEFAULT_SHUTDOWN_CONFIRM_SEC

\* action and events are those of the last tick that was given a button
\* action
tick(p0, act, d, rnd, sv) ==
    LET p1 == [p0 EXCEPT !.now = Clock(p0, d)]
        p == IF act = None THEN p1 ELSE [p1 EXCEPT !.action = act, !.events = << >>]
    IN  IF p.shutdown_confirm_at # NoTime
        THEN IF act = "mode" THEN _shutdown_now(p)
             ELSE IF act \in {"prev", "next", "shutdown"}
             THEN tick_action(confirm_cleared(p), consumed(act), rnd, sv)
             ELSE IF expired(p)
             THEN tick_action(confirm_cleared(p), act, rnd, sv)
             ELSE {p}
        ELSE tick_action(p, act, rnd, sv)

\* what a readable state.json can hold
StateFiles ==
    {NoFile}
    \cup {StateData("radiko", sid, NoStation) : sid \in {"QRR", "NHK"}}
    \cup {StateData("", "LFR", NoStation)}
    \cup {StateData("world", "", ws) : ws \in WorldStations \cup {NoStation}}

\* rnd: what random_station() gives when the file names no world station
_load_state(p, rnd) ==
    IF p.state_file = NoFile THEN {p}
    ELSE LET data == p.state_file
             m == Strip(data.mode)
             p1 == IF m \in {"radiko", "world"}
                   THEN [p EXCEPT !.mode = m] ELSE p
         IN  IF p1.mode = "radiko"
             THEN LET station_id == Strip(data.station_id)
                      found == {k \in DOMAIN p1.stations :
                                    p1.stations[k].id = station_id}
                  IN  _start_current(
                          IF station_id # "" /\ found # {}
                          THEN [p1 EXCEPT !.index =
                                    (CHOOSE k \in found : \A j \in found : k <= j) - 1]
                          ELSE p1)
             ELSE LET name == Strip(data.world_name)
                      url == Strip(data.world_url)
                      image_url == Strip(data.world_image_url)
                      ws == IF name # "" /\ url # ""
                            THEN WorldStation(name, url, image_url) ELSE rnd
                  IN  _start_current(
                          IF ws # NoStation
                          THEN [p1 EXCEPT !.world_station = ws,
                                          !.world_history = <<ws>>,
                                          !.world_index = 0]
                          ELSE p1)

\* RadikoResolver.available()
available(r) == r.client /\ r.station_map # {}

_load_radiko_token(p) ==
    IF ~p.resolver THEN {p}
    ELSE { [p EXCEPT !.r = a.r, !.radiko_token = a.ret] : a \in auth_token_call(p.r) }

\* Player(stations, display, buttons, resolver) on a new resolver r
Player__init__(list, r, file, rnd) ==
    LET p == [stations |-> list, resolver |-> available(r), index |-> 0,
              mode |-> "radiko", world_station |-> NoStation, world_history |-> << >>,
              world_index |-> -1, shutdown_confirm_at |-> NoTime,
              stream_cache |-> [s \in StationIds |-> None], ffmpeg |-> None,
              radiko_token |-> None, now |-> 0, procs |-> {}, mpd |-> None,
              state_file |-> file, poweroff |-> FALSE, running |-> TRUE,
              action |-> None, events |-> << >>, before |-> None, lost |-> {},
              start_url |-> None, r |-> r]
    IN  UNION { _load_state(q, rnd) : q \in _load_radiko_token(p) }

\* RadikoResolver() with the client constructed or not, sm the stations the
\* client lists
NewResolver(c, sm, rq) ==
    [client |-> c, station_map |-> sm, selected_id |-> None, auth_token |-> None,
     area_id |-> None, auth_headers |-> {},
     cache |-> [s \in StationIds |-> None], requests_ok |-> rq, selected |-> None]

\* the resolvers main can construct: without a client the station map is
\* empty
NewResolvers ==
    { NewResolver(FALSE, {}, rq) : rq \in BOOLEAN }
    \cup { NewResolver(TRUE, sm, rq) : sm \in {{}, {"TBS", "QRR"}}, rq \in BOOLEAN }

Actions == {None, "prev", "next", "mode", "shutdown"}

\* the seconds from one tick to the next: the sleep and the time the tick
\* took, here just short of the time a confirmation stays, or that long
Delays == {DEFAULT_SHUTDOWN_CONFIRM_SEC - DEFAULT_REFRESH_SEC, DEFAULT_SHUTDOWN_CONFIRM_SEC}

\* one round of main's loop: player.tick(), then the sleep. Once the
\* system was told to go down, what comes is its signal.
\* a tick with the directory dir, in runs whose history holds at most
\* maxlen stations
TickFrom(act, d, dir, maxlen) ==
    /\ running /\ ~poweroff
    /\ \E rnd \in dir \cup {NoStation}, sv \in SaveWays :
         /\ rnd # NoStation => Len(world_history) < maxlen
         /\ \E q \in tick(Player, act, d, rnd, sv) : SetPlayer(q)
    /\ UNCHANGED <<frameVars, handshakeVars, auxVars>>

TickWith(act, d) == TickFrom(act, d, WorldStations, MaxHistory)

Tick == \E act \in Actions, d \in Delays : TickWith(act, d)

\* a decoder ends by itself: the stream broke, or the device went away
DecoderExits ==
    /\ \E pid \in procs : procs' = procs \ {pid}
    /\ UNCHANGED <<resolverVars, frameVars, handshakeVars, stations, resolver, index,
                   mode, world_station, world_history, world_index,
                   shutdown_confirm_at, stream_cache, ffmpeg, radiko_token, now, mpd,
                   state_file, poweroff, running, action, events, before, lost,
                   start_url, auxVars>>

\* SIGINT or SIGTERM: the loop ends and main stops the decoder
MainExit ==
    /\ running
    /\ \E q \in _stop_ffmpeg([Player EXCEPT !.running = FALSE, !.action = None,
                                             !.events = << >>]) : SetPlayer(q)
    /\ UNCHANGED <<frameVars, handshakeVars, auxVars>>

(***************************************************************************)
(* RadikoResolver.current_program                                          *)
(*                                                                         *)
(* Times are seconds in Tokyo from midnight of day 0, for datetime.now and *)
(* for time.time() alike.                                                  *)
(***************************************************************************)
DEFAULT_PROGRAM_REFRESH_SEC == 3600
DaySec == 86400
HalfHour == 1800

\* the clock of the model runs from 23:00 of day 0 to 01:00 of day 1
FirstClock == 82800
MaxClock == 90000

\* now.strftime("%Y%m%d"): the day
date_key(t) == t \div DaySec

ProgramInfo(title, img_url, ft, to) ==
    [title |-> title, img_url |-> img_url, ft |-> ft, to |-> to]

\* None of an Optional[ProgramInfo]
NoProgram == ProgramInfo("", "", -1, -1)

\* 23:00-24:00 "A", 00:00-01:00 "B", and 23:30-00:30 "C", which overlaps both
ProgA == ProgramInfo("A", "https://radiko.jp/img/a.png", 82800, 86400)
ProgB == ProgramInfo("B", "https://radiko.jp/img/b.png", 86400, 90000)
ProgC == ProgramInfo("C", "", 84600, 88200)

\* what _fetch_programs can give: [] when the fetch failed or the document
\* has no station, else the entries of the document in its order
Schedules == { << >>, <<ProgA, ProgB>>, <<ProgA, ProgC>>, <<ProgC, ProgB>> }

\* no entry of self._program_cache for the station
NoCache == [fetched_at |-> -1, date |-> -1, programs |-> << >>]

\* "program.ft <= now < program.to"
on_air_end_inclusive(pr, t) == pr.ft <= t /\ t <= pr.to
on_air(pr, t) == pr.ft <= t /\ t < pr.to

\* _get_programs at time t, fetched what _fetch_programs would give: the
\* list returned and the cache afterwards
_get_programs(cache, sid, t, fetched) ==
    LET cached == cache[sid]
    IN  IF /\ cached # NoCache
           /\ cached.date = date_key(t)
           /\ t - cached.fetched_at < DEFAULT_PROGRAM_REFRESH_SEC
        THEN [programs |-> cached.programs, cache |-> cache]
        ELSE [programs |-> fetched,
              cache |-> IF fetched # << >>
                        THEN [cache EXCEPT ![sid] = [fetched_at |-> t, date |-> date_key(t),
                                                     programs |-> fetched]]
                        ELSE cache]

\* the loop of current_program over the list, from entry k on
RECURSIVE first_on_air(_, _, _)
first_on_air(list, k, t) ==
    IF k > Len(list) THEN NoProgram
    ELSE IF on_air(list[k], t) THEN list[k]
    ELSE first_on_air(list, k + 1, t)

current_program(list, t) ==
    IF list = << >> THEN NoProgram ELSE first_on_air(list, 1, t)

\* the stations current_program is asked about
ProgramStations == {"TBS", "QRR"}

\* current_program(sid), d seconds after the call before it
CurrentProgramCall ==
    /\ \E sid \in ProgramStations, d \in {0, HalfHour}, fetched \in Schedules :
         /\ clock + d <= MaxClock
         /\ clock' = clock + d
         /\ LET g == _get_programs(program_cache, sid, clock', fetched)
            IN  /\ program_cache' = g.cache
                /\ programs' = g.programs
                /\ program' = current_program(g.programs, clock')
         /\ op' = "current_program"
         /\ arg' = sid
    /\ UNCHANGED <<resolverVars, pc, ret, raised, log, probed, prev_ret, hs, steps,
                   handshakeVars, playerVars, workerVars, metaVars, xmlVars, stopVars, selectVars>>

(***************************************************************************)
(* Player._kick_program_update and its worker threads                      *)
(*                                                                         *)
(* The main thread and the workers take their steps one statement at a     *)
(* time; what a tick does before _kick_program_update is one step.         *)
(***************************************************************************)
LockFree == "free"
Main == "main"

\* the names of the threads that threading.Thread can start
Workers == {"w1", "w2"}

\* The programme on air on a station, as current_program gives it: the
\* title names the station, so that it can be told whose it is.
ArtworkUrl(sid) ==
    CASE sid = "TBS" -> "https://radiko.jp/img/TBS.png"
      [] sid = "QRR" -> "https://radiko.jp/img/QRR.png"
      [] sid = "LFR" -> "https://radiko.jp/img/LFR.png"
StationProgram(sid) == ProgramInfo(sid, ArtworkUrl(sid), FirstClock, MaxClock)

\* what self._resolver.current_program(station_id) can give a worker
WorkerPrograms(sid) ==
    { NoProgram, StationProgram(sid), [StationProgram(sid) EXCEPT !.img_url = ""],
      [StationProgram(sid) EXCEPT !.title = ""] }

\* _start_current, lines 1001-1003, when this tick restarted playback
ProgramReset(restarted) ==
    /\ program_title' = IF restarted THEN "" ELSE program_title
    /\ program_image_url' = IF restarted THEN "" ELSE program_image_url
    /\ program_image' = IF restarted THEN None ELSE program_image

\* tick up to _kick_program_update, with a navigation action or none. due:
\* DEFAULT_METADATA_SEC have passed since the last programme check.
WorkerTick ==
    /\ main_pc = "idle" /\ running /\ ~poweroff
    /\ \E act \in {None, "prev", "next", "mode"}, rnd \in WorldStations \cup {NoStation},
          due \in BOOLEAN :
         /\ rnd # NoStation => Len(world_history) < MaxHistory
         /\ \E q \in tick(Player, act, DEFAULT_REFRESH_SEC, rnd, "written") :
              /\ SetPlayer(q)
              /\ ProgramReset(act # None /\ \E k \in DOMAIN q.events : q.events[k] = "start")
              /\ main_pc' = IF q.mode = "radiko" /\ due /\ q.resolver
                            THEN "lock" ELSE "idle"
    /\ UNCHANGED <<frameVars, handshakeVars, programVars, metaVars, xmlVars, stopVars, selectVars, program_fetching,
                   program_lock, workers>>

\* "with self._program_lock:"
KickLock ==
    /\ main_pc = "lock" /\ program_lock = LockFree
    /\ program_lock' = Main
    /\ main_pc' = "test"
    /\ UNCHANGED <<resolverVars, frameVars, handshakeVars, playerVars, programVars, metaVars, xmlVars, stopVars, selectVars,
                   program_title, program_image_url, program_image, program_fetching,
                   workers>>

\* "if self._program_fetching: return"
kick_returns_never(fetching) == FALSE
kick_returns(fetching) == fetching

\* the test of the flag; the return leaves the with block and frees the lock
KickTest ==
    /\ main_pc = "test"
    /\ IF kick_returns(program_fetching)
       THEN /\ program_lock' = LockFree
            /\ main_pc' = "idle"
       ELSE /\ main_pc' = "set"
            /\ UNCHANGED program_lock
    /\ UNCHANGED <<resolverVars, frameVars, handshakeVars, playerVars, programVars, metaVars, xmlVars, stopVars, selectVars,
                   program_title, program_image_url, program_image, program_fetching,
                   workers>>

\* "self._program_fetching = True" and the end of the with block
KickSet ==
    /\ main_pc = "set"
    /\ program_fetching' = TRUE
    /\ program_lock' = LockFree
    /\ main_pc' = "start"
    /\ UNCHANGED <<resolverVars, frameVars, handshakeVars, playerVars, programVars, metaVars, xmlVars, stopVars, selectVars,
                   program_title, program_image_url, program_image, workers>>

\* a thread with a position, a station_id and a program is added
Started(w, sid) ==
    [x \in DOMAIN workers \cup {w} |->
        IF x = w THEN [pc |-> "fetch", station_id |-> sid, program |-> NoProgram]
        ELSE workers[x]]

\* "station_id = self.current_station().id" and Thread(...).start()
KickStart ==
    /\ main_pc = "start"
    /\ Workers \ DOMAIN workers # {}
    /\ workers' = Started(CHOOSE w \in Workers \ DOMAIN workers : TRUE,
                          current_station(Player).id)
    /\ main_pc' = "idle"
    /\ UNCHANGED <<resolverVars, frameVars, handshakeVars, playerVars, programVars, metaVars, xmlVars, stopVars, selectVars,
                   program_title, program_image_url, program_image, program_fetching,
                   program_lock>>

WorkerAt(w, pos) == w \in DOMAIN workers /\ workers[w].pc = pos
Goto(w, pos) == workers' = [workers EXCEPT ![w].pc = pos]

\* "program = self._resolver.current_program(station_id)" and
\* "if not program or self._mode != "radiko": return"
WorkerFetch(w) ==
    /\ WorkerAt(w, "fetch")
    /\ \E pr \in WorkerPrograms(workers[w].station_id) :
         workers' = [workers EXCEPT ![w].program = pr,
                                    ![w].pc = IF pr = NoProgram \/ mode # "radiko"
                                              THEN "finally" ELSE "title"]
    /\ UNCHANGED <<resolverVars, frameVars, handshakeVars, playerVars, programVars, metaVars, xmlVars, stopVars, selectVars,
                   program_title, program_image_url, program_image, program_fetching,
                   program_lock, main_pc>>

\* "if program.title: self._program_title = program.title"
WorkerTitle(w) ==
    /\ WorkerAt(w, "title")
    /\ program_title' = IF workers[w].program.title # ""
                        THEN workers[w].program.title ELSE program_title
    /\ Goto(w, "img_url")
    /\ UNCHANGED <<resolverVars, frameVars, handshakeVars, playerVars, programVars, metaVars, xmlVars, stopVars, selectVars,
                   program_image_url, program_image, program_fetching, program_lock,
                   main_pc>>

\* "if not program.img_url or program.img_url == self._program_image_url:
\* return", else "self._program_image_url = program.img_url"
WorkerImageUrl(w) ==
    /\ WorkerAt(w, "img_url")
    /\ LET img == workers[w].program.img_url
       IN  IF img = "" \/ img = program_image_url
           THEN /\ Goto(w, "finally")
                /\ UNCHANGED program_image_url
           ELSE /\ program_image_url' = img
                /\ Goto(w, "get")
    /\ UNCHANGED <<resolverVars, frameVars, handshakeVars, playerVars, programVars, metaVars, xmlVars, stopVars, selectVars,
                   program_title, program_image, program_fetching, program_lock,
                   main_pc>>

\* The import, requests.get and "if res.status_code != 200: return": the
\* image arrives, or the worker is done (an exception is caught)
WorkerGet(w) ==
    /\ WorkerAt(w, "get")
    /\ \E arrived \in BOOLEAN : Goto(w, IF arrived THEN "check" ELSE "finally")
    /\ UNCHANGED <<resolverVars, frameVars, handshakeVars, playerVars, programVars, metaVars, xmlVars, stopVars, selectVars,
                   program_title, program_image_url, program_image, program_fetching,
                   program_lock, main_pc>>

\* "if self.current_station().id != station_id: return"
WorkerCheck(w) ==
    /\ WorkerAt(w, "check")
    /\ Goto(w, IF current_station(Player).id # workers[w].station_id
               THEN "finally" ELSE "image")
    /\ UNCHANGED <<resolverVars, frameVars, handshakeVars, playerVars, programVars, metaVars, xmlVars, stopVars, selectVars,
                   program_title, program_image_url, program_image, program_fetching,
                   program_lock, main_pc>>

\* "self._program_image = Image.open(...).convert("RGB")", or the exception
\* of a body that is no image
WorkerImage(w) ==
    /\ WorkerAt(w, "image")
    /\ \E decoded \in BOOLEAN :
         program_image' = IF decoded THEN workers[w].program.img_url ELSE program_image
    /\ Goto(w, "finally")
    /\ UNCHANGED <<resolverVars, frameVars, handshakeVars, playerVars, programVars, metaVars, xmlVars, stopVars, selectVars,
                   program_title, program_image_url, program_fetching, program_lock,
                   main_pc>>

\* finally: "with self._program_lock:"
WorkerLock(w) ==
    /\ WorkerAt(w, "finally") /\ program_lock = LockFree
    /\ program_lock' = w
    /\ Goto(w, "clear")
    /\ UNCHANGED <<resolverVars, frameVars, handshakeVars, playerVars, programVars, metaVars, xmlVars, stopVars, selectVars,
                   program_title, program_image_url, program_image, program_fetching,
                   main_pc>>

\* "self._program_fetching = False", the end of the with block and of the
\* thread
WorkerClear_flag_kept(w) ==
    /\ WorkerAt(w, "clear")
    /\ program_lock' = LockFree
    /\ workers' = [x \in DOMAIN workers \ {w} |-> workers[x]]
    /\ UNCHANGED <<resolverVars, frameVars, handshakeVars, playerVars, programVars, metaVars, xmlVars, stopVars, selectVars,
                   program_title, program_image_url, program_image, program_fetching,
                   main_pc>>
WorkerClear(w) ==
    /\ WorkerAt(w, "clear")
    /\ program_fetching' = FALSE
    /\ program_lock' = LockFree
    /\ workers' = [x \in DOMAIN workers \ {w} |-> workers[x]]
    /\ UNCHANGED <<resolverVars, frameVars, handshakeVars, playerVars, programVars, metaVars, xmlVars, stopVars, selectVars,
                   program_title, program_image_url, program_image, main_pc>>

WorkerStep ==
    \E w \in Workers :
        \/ WorkerFetch(w)
        \/ WorkerTitle(w)
        \/ WorkerImageUrl(w)
        \/ WorkerGet(w)
        \/ WorkerCheck(w)
        \/ WorkerImage(w)
        \/ WorkerLock(w)
        \/ WorkerClear(w)

(***************************************************************************)
(* SpecAuth: a resolver whose auth_token is called again and again         *)
(***************************************************************************)
vars == <<resolverVars, frameVars, handshakeVars, playerVars, auxVars>>

InitResolver ==
    /\ client \in BOOLEAN
    /\ requests_ok \in BOOLEAN
    /\ station_map = {}
    /\ selected_id = None
    /\ auth_token = None
    /\ area_id = None
    /\ auth_headers = {}
    /\ stream_url_cache = [s \in StationIds |-> None]

InitFrame ==
    /\ pc = "idle"
    /\ op = "init"
    /\ ret = None
    /\ raised = FALSE
    /\ log = << >>
    /\ probed = FALSE
    /\ prev_ret = NoCall
    /\ hs = "none"
    /\ arg = None
    /\ steps = << >>
    /\ h_i = 0
    /\ h_token = None
    /\ h_keylength = None
    /\ h_keyoffset = None
    /\ h_partial = << >>
    /\ first_full = N1 + 1

\* no Player is constructed in the specifications of the resolver alone
NoPlayer ==
    /\ stations = << >>
    /\ resolver = FALSE
    /\ index = 0
    /\ mode = "radiko"
    /\ world_station = NoStation
    /\ world_history = << >>
    /\ world_index = -1
    /\ shutdown_confirm_at = NoTime
    /\ stream_cache = [s \in StationIds |-> None]
    /\ ffmpeg = None
    /\ radiko_token = None
    /\ now = 0
    /\ procs = {}
    /\ mpd = None
    /\ state_file = NoFile
    /\ poweroff = FALSE
    /\ running = FALSE
    /\ action = None
    /\ events = << >>
    /\ before = None
    /\ lost = {}
    /\ start_url = None

\* no programme was asked for
NoProgramCall ==
    /\ program_cache = [s \in StationIds |-> NoCache]
    /\ clock = FirstClock
    /\ programs = << >>
    /\ program = NoProgram

\* Player.__init__: no programme shown, no worker
NoWorker ==
    /\ program_title = ""
    /\ program_image_url = ""
    /\ program_image = None
    /\ program_fetching = FALSE
    /\ program_lock = LockFree
    /\ main_pc = "idle"
    /\ workers = << >>

\* no stream XML document is at hand
NoXml == [pc |-> "none", nodes |-> << >>, playlist_urls |-> << >>, calls |-> << >>]

\* Player.__init__: no title, never refreshed
NoTitle == [title |-> "", at |-> 0]
NoMeta ==
    /\ last_meta = ""
    /\ last_meta_at = 0
    /\ meta_left = NoTitle

NoDocument == xml = NoXml
NoStopped == [ran |-> FALSE, handle |-> None, how |-> NoOutcome, calls |-> << >>,
              raised |-> None]
NoStop == stopped = NoStopped
NoSelectLog == [skipped |-> FALSE, sid |-> None, client |-> None]
NoSelect == client_station = None /\ select_log = NoSelectLog

InitAuth == InitResolver /\ InitFrame /\ NoPlayer /\ NoProgramCall /\ NoWorker /\ NoMeta
    /\ NoDocument
    /\ NoStop
    /\ NoSelect

NextAuth ==
    \/ AuthTokenCall /\ UNCHANGED <<arg, steps, playerVars, auxVars>>
    \/ Auth1Request /\ UNCHANGED <<arg, steps, playerVars, auxVars>>
    \/ Auth2Post /\ UNCHANGED <<arg, steps, playerVars, auxVars>>
    \/ Auth2Get /\ UNCHANGED <<arg, steps, playerVars, auxVars>>

SpecAuth == InitAuth /\ [][NextAuth]_vars

(***************************************************************************)
(* Claims about the auth session (checked under SpecAuth)                  *)
(***************************************************************************)
Phase1Idx == {k \in DOMAIN log : log[k].ph = 1}
Phase2Idx == {k \in DOMAIN log : log[k].ph = 2}
HandshakeRan == pc = "idle" /\ op = "auth_token" /\ hs # "none"

\* C4 as stated: after ANY auth_token() call, the next call returns the same
\* value and makes no network request and no client probe.
C4_SecondCallIdentical ==
    (pc = "idle" /\ prev_ret # NoCall) =>
        (ret = prev_ret /\ log = << >> /\ ~probed)

\* C4 amended: after an auth_token() call that returned a non-empty token,
\* the next call returns that same token, which is still the cached one, and
\* makes no network request, no client probe and no handshake.
C4_CachedTokenReused ==
    (pc = "idle" /\ prev_ret # NoCall /\ Truthy(prev_ret)) =>
        (ret = prev_ret /\ auth_token = prev_ret /\ ~raised
         /\ log = << >> /\ ~probed /\ hs = "none")

\* a second call on a resolver with a native client (which could be probed)
\* whose first call got its token from the handshake
C4_Witness ==
    /\ pc = "idle" /\ op = "auth_token" /\ client
    /\ prev_ret = "tokA" /\ ret = "tokA"
    /\ <<"X-Radiko-Authtoken", "tokA">> \in auth_headers

\* no candidate url is asked twice in one handshake, and auth1 never after auth2
NoRetry(lg) ==
    \A a, b \in DOMAIN lg :
        a < b =>
            \/ lg[a].ph < lg[b].ph
            \/ /\ lg[a].ph = lg[b].ph
               /\ lg[a].i <= lg[b].i
               /\ (lg[a].i = lg[b].i => (lg[a].m = "POST" /\ lg[b].m = "GET"))

\* C5: a handshake that fails in any phase returns an absent token without
\* raising, asks no candidate twice, and leaves the cached token, the cached
\* headers and the region id as they were; a handshake only ever starts
\* inside an auth_token() call, at the first auth1 candidate.
C5_FailedHandshakeKeepsState ==
    [][ /\ (pc' = "idle" /\ hs' = "failed") =>
             /\ ret' = None /\ ~raised'
             /\ auth_token' = auth_token
             /\ auth_headers' = auth_headers
             /\ area_id' = area_id
             /\ NoRetry(log')
        /\ (pc = "idle" /\ pc' # "idle") =>
             (pc' = "auth1" /\ h_i' = 1 /\ log' = << >>)
      ]_vars

\* a handshake that failed in phase 2, after a POST and its GET fallback
C5_Witness ==
    /\ HandshakeRan /\ hs = "failed" /\ ret = None
    /\ \E k \in Phase2Idx : log[k].m = "GET" /\ log[k].st = 404 /\ log[k].i = N2

\* C6: when only the third of the four auth1 candidates answers with the
\* three headers, candidates 1, 2, 3 are asked in that order and the fourth
\* never, every auth2 request comes after the third answer and carries its
\* token and the partial key of its offset and length.
C6_ThirdCandidateWins ==
    (first_full = 3 /\ pc # "auth1" /\ log # << >>) =>
        /\ Cardinality(Phase1Idx) = 3
        /\ \A k \in 1..3 : log[k].ph = 1 /\ log[k].i = k
        /\ \A k \in Phase2Idx :
             /\ k > 3
             /\ log[k].tok = log[3].tok
             /\ log[k].pk = partial_key(log[3].pk[1], log[3].pk[2])

\* C7: a handshake that ends without a token in phase 1, no candidate having
\* answered with the three headers, has asked every auth1 candidate.
C7_EveryCandidateTried ==
    (HandshakeRan /\ hs = "failed" /\ log # << >>
     /\ \A k \in DOMAIN log : log[k].ph = 1 /\ ~log[k].full) =>
        {log[k].i : k \in DOMAIN log} = 1..N1

\* C8: auth2 requests come only after a full auth1 answer and carry its
\* token; the POSTs go to the candidates in list order; a GET follows only a
\* POST to the same candidate that answered 404 or 405; nothing is asked
\* after a final 200; and the handshake returns a token iff some auth2
\* request answered 200.
C8_Phase2Order ==
    /\ \A k \in Phase2Idx :
         /\ \E j \in Phase1Idx : j < k /\ log[j].full /\ log[j].tok = log[k].tok
         /\ log[k].m = "POST" =>
              log[k].i = Cardinality({j \in Phase2Idx : j < k /\ log[j].m = "POST"}) + 1
         /\ log[k].m = "GET" =>
              /\ k - 1 \in Phase2Idx
              /\ log[k - 1].m = "POST" /\ log[k - 1].i = log[k].i
              /\ log[k - 1].st \in {404, 405}
         /\ log[k].st = 200 => k = Len(log)
         /\ (log[k].m = "POST" /\ k < Len(log)) =>
              (log[k + 1].m = "GET" <=> log[k].st \in {404, 405})
    /\ HandshakeRan =>
         ((hs = "ok" /\ Truthy(ret)) <=> (\E k \in Phase2Idx : log[k].st = 200))
    /\ HandshakeRan => (hs = "failed" <=> ret = None)

\* the second candidate's POST answered 405, its GET 200
C8_Witness ==
    /\ HandshakeRan /\ hs = "ok" /\ Truthy(ret)
    /\ \E k \in Phase2Idx :
         log[k].m = "GET" /\ log[k].st = 200 /\ log[k].i = 2 /\ log[k - 1].st = 405

(***************************************************************************)
(* SpecResolve: a resolver whose stream_url is called again and again      *)
(***************************************************************************)
InitResolve ==
    /\ client \in BOOLEAN
    /\ requests_ok \in BOOLEAN
    /\ station_map \in (IF client THEN SUBSET StationIds ELSE {{}})
    /\ selected_id = None
    /\ auth_token = None
    /\ area_id = None
    /\ auth_headers = {}
    /\ stream_url_cache = [s \in StationIds |-> None]
    /\ InitFrame
    /\ NoPlayer
    /\ NoProgramCall
    /\ NoWorker
    /\ NoMeta
    /\ NoDocument
    /\ NoStop
    /\ NoSelect

NextResolve == StreamUrlCall

SpecResolve == InitResolve /\ [][NextResolve]_vars

StepNames == {steps[k].step : k \in DOMAIN steps}

\* C9: stream_url never lets an exception reach its caller; a step that
\* raised is followed by the next step of the chain, or by the end of the
\* call with an absent result.
C9_NoExceptionEscapes ==
    op = "stream_url" =>
        /\ ~raised
        /\ ret = None \/ Truthy(ret)
        /\ \A k \in DOMAIN steps :
             steps[k].out = "raise" =>
                 /\ k = Len(steps) => ret = None
                 /\ steps[k].step = "xml" => (k < Len(steps) \/ arg \notin station_map)
                 /\ steps[k].step \in {"client", "retry"} =>
                        (k < Len(steps) /\ steps[k + 1].step \in {"retry", "raw"})

\* the xml step, the client accessor, the retry after a forced re-select
\* and the raw identifier fallback all raised
C9_Witness ==
    /\ op = "stream_url" /\ ret = None
    /\ Len(steps) = 5
    /\ \A k \in 2..5 : steps[k].out = "raise"

\* C10: stream_url returns absent only after the cache lookup, the xml
\* discovery, the client API and the raw identifier fallback were all
\* attempted.
C10_AbsentOnlyAfterAllSteps ==
    (op = "stream_url" /\ ret = None) =>
        {"cache", "xml", "client", "raw"} \subseteq StepNames

(***************************************************************************)
(* Spec: main constructs a resolver and a Player and runs its loop         *)
(***************************************************************************)
Init ==
    /\ InitFrame
    /\ NoProgramCall
    /\ NoWorker
    /\ NoMeta
    /\ NoDocument
    /\ NoStop
    /\ NoSelect
    /\ \E list \in StationLists, r \in NewResolvers, file \in StateFiles,
          rnd \in WorldStations \cup {NoStation} :
         \E p \in Player__init__(list, r, file, rnd) :
             /\ stations = p.stations
             /\ resolver = p.resolver
             /\ index = p.index
             /\ mode = p.mode
             /\ world_station = p.world_station
             /\ world_history = p.world_history
             /\ world_index = p.world_index
             /\ shutdown_confirm_at = p.shutdown_confirm_at
             /\ stream_cache = p.stream_cache
             /\ ffmpeg = p.ffmpeg
             /\ radiko_token = p.radiko_token
             /\ now = p.now
             /\ procs = p.procs
             /\ mpd = p.mpd
             /\ state_file = p.state_file
             /\ poweroff = p.poweroff
             /\ running = p.running
             /\ action = p.action
             /\ events = p.events
             /\ before = p.before
             /\ lost = p.lost
             /\ start_url = p.start_url
             /\ client = p.r.client
             /\ station_map = p.r.station_map
             /\ selected_id = p.r.selected_id
             /\ auth_token = p.r.auth_token
             /\ area_id = p.r.area_id
             /\ auth_headers = p.r.auth_headers
             /\ stream_url_cache = p.r.cache
             /\ requests_ok = p.r.requests_ok

Next ==
    \/ Tick
    \/ DecoderExits
    \/ MainExit

Spec == Init /\ [][Next]_vars

(***************************************************************************)
(* Claims about the Player (checked under Spec)                            *)
(***************************************************************************)
StopEvents == {"stop", "terminate", "kill"}
SpawnEvents == {"ffmpeg", "ffmpeg_plain"}
RestartRan == \E k \in DOMAIN events : events[k] = "start"

\* C1: the Player holds at most one live decoder: no live decoder is left
\* without a handle, no handle of a live decoder is overwritten, and every
\* spawn comes right after a _stop_ffmpeg (terminate, and kill when the
\* wait timed out), with no other spawn in between.
C1_OneLiveDecoder ==
    /\ lost = {}
    /\ procs \subseteq {ffmpeg}
    /\ \A k \in DOMAIN events :
         events[k] \in SpawnEvents =>
             \E j \in 1..(k - 1) :
                 /\ events[j] = "stop"
                 /\ \A i \in (j + 1)..(k - 1) : events[i] \in {"terminate", "kill"}

\* a decoder was live, the wait after terminate timed out, it was killed,
\* and the new decoder is the only live one
C1_Witness ==
    /\ before # None
    /\ Len(events) = 5
    /\ events[4] = "kill" /\ events[5] \in SpawnEvents
    /\ ffmpeg \notin {None, before}
    /\ procs = {ffmpeg}

\* C2: after a playback restart, whatever its outcome, the decoder that was
\* live before it is no longer live.
C2_RestartStopsPrevious ==
    (RestartRan /\ before # None) => before \notin procs

IndexOk == index \in 0..(Len(stations) - 1)

\* C3: the primary station index is always within the station list, and the
\* primary station is always one of the list, whatever state was loaded.
C3_IndexInRange ==
    /\ IndexOk
    /\ mode = "radiko" =>
           \E k \in DOMAIN stations : stations[k] = current_station(Player)

\* prev at the first station of a list of three: the index wraps to the last
C3_Witness ==
    /\ action = "prev" /\ mode = "radiko" /\ RestartRan
    /\ Len(stations) = 3
    /\ index = 2

\* C11: no entry of the resolver's cache and none of the Player's cache
\* holds a url with the transient marker; such a url is played but not
\* stored.
C11_NoMarkerCached ==
    \A sid \in StationIds :
        /\ stream_url_cache[sid] # MedialistUrl
        /\ stream_cache[sid] # MedialistUrl

\* the resolver gave the url with the marker, a decoder plays it, and both
\* caches have nothing for the station
C11_Witness ==
    /\ RestartRan /\ start_url = MedialistUrl
    /\ mode = "radiko" /\ ffmpeg \in procs
    /\ stream_url_cache[current_station(Player).id] = None
    /\ stream_cache[current_station(Player).id] = None

\* the last step of the last stream_url call found the url, and it was not
\* the cache
DiscoveryHit ==
    /\ op = "stream_url" /\ Truthy(ret)
    /\ steps # << >>
    /\ steps[Len(steps)].out = "hit"
    /\ steps[Len(steps)].step \in {"xml", "client", "retry", "raw"}

\* C12: when a discovery step of stream_url (the manifest xml, the client
\* API, the raw identifier) finds a url without the transient marker, the
\* resolver's cache holds that url for the station afterwards.
C12_DiscoveryPopulatesCache ==
    (DiscoveryHit /\ ret # MedialistUrl) => stream_url_cache[arg] = ret

(***************************************************************************)
(* SpecProgram: a resolver whose current_program is called again and again *)
(***************************************************************************)
InitProgram == InitResolver /\ InitFrame /\ NoPlayer /\ NoProgramCall /\ NoWorker /\ NoMeta
    /\ NoDocument
    /\ NoStop
    /\ NoSelect

NextProgram == CurrentProgramCall

SpecProgram == InitProgram /\ [][NextProgram]_vars

OnAirIdx == {k \in DOMAIN programs : programs[k].ft <= clock /\ clock < programs[k].to}

\* C13 as stated: current_program returns P if and only if P is an entry of
\* the schedule with P.ft <= now < P.to, and absent when there is none.
C13_ReturnsIffOnAir ==
    op = "current_program" =>
        /\ \A k \in DOMAIN programs : (program = programs[k]) <=> (k \in OnAirIdx)
        /\ OnAirIdx = {} => program = NoProgram

\* C13: current_program returns the first entry of the schedule, in its
\* order, with ft <= now < to (start inclusive, end exclusive), and absent
\* when no entry is on air or the schedule is empty, a failed fetch
\* included.
C13_ReturnsFirstOnAir ==
    op = "current_program" =>
        IF OnAirIdx = {} THEN program = NoProgram
        ELSE \E k \in OnAirIdx :
                 /\ \A j \in OnAirIdx : k <= j
                 /\ program = programs[k]

\* 23:00-24:00 "A", 00:00-01:00 "B", asked at 00:00:00: "B"
C13_Witness ==
    /\ op = "current_program"
    /\ programs = <<ProgA, ProgB>>
    /\ clock = ProgA.to
    /\ program = ProgB

(***************************************************************************)
(* SpecWorker: the main loop and the programme workers of a Player         *)
(***************************************************************************)
\* a stations file whose entries carry their stream urls
WorkerStations ==
    << Station("QRR", "http://qrr.example/live.mp3"), Station("LFR", XmlUrl("LFR")) >>

\* the Player of main, with a client that lists stations, for which the
\* handshake failed and the client gave no token
InitWorker ==
    /\ InitFrame
    /\ NoProgramCall
    /\ NoWorker
    /\ NoMeta
    /\ NoDocument
    /\ NoStop
    /\ NoSelect
    /\ \E r \in {NewResolver(TRUE, {"QRR", "LFR"}, TRUE)} :
         \E p \in Player__init__(WorkerStations, r, NoFile, NoStation) :
             /\ p.radiko_token = None
             /\ stations = p.stations
             /\ resolver = p.resolver
             /\ index = p.index
             /\ mode = p.mode
             /\ world_station = p.world_station
             /\ world_history = p.world_history
             /\ world_index = p.world_index
             /\ shutdown_confirm_at = p.shutdown_confirm_at
             /\ stream_cache = p.stream_cache
             /\ ffmpeg = p.ffmpeg
             /\ radiko_token = p.radiko_token
             /\ now = p.now
             /\ procs = p.procs
             /\ mpd = p.mpd
             /\ state_file = p.state_file
             /\ poweroff = p.poweroff
             /\ running = p.running
             /\ action = p.action
             /\ events = p.events
             /\ before = p.before
             /\ lost = p.lost
             /\ start_url = p.start_url
             /\ client = p.r.client
             /\ station_map = p.r.station_map
             /\ selected_id = p.r.selected_id
             /\ auth_token = p.r.auth_token
             /\ area_id = p.r.area_id
             /\ auth_headers = p.r.auth_headers
             /\ stream_url_cache = p.r.cache
             /\ requests_ok = p.r.requests_ok

NextWorker ==
    \/ WorkerTick
    \/ KickLock
    \/ KickTest
    \/ KickSet
    \/ KickStart
    \/ WorkerStep

SpecWorker == InitWorker /\ [][NextWorker]_vars

\* C14: at most one worker is in flight; a kick that finds the flag set
\* starts none; the flag is tested and set only by the holder of the lock.
C14_OneWorkerInFlight ==
    /\ Cardinality(DOMAIN workers) <= 1
    /\ workers # << >> => program_fetching
    /\ main_pc \in {"test", "set"} => program_lock = Main
    /\ main_pc = "start" => (program_fetching /\ workers = << >>)
    /\ \A w \in DOMAIN workers : workers[w].pc = "clear" <=> program_lock = w

\* the main thread holds the lock and finds the flag set by the worker in
\* flight: it will return
C14_Witness ==
    /\ main_pc = "test" /\ program_lock = Main
    /\ program_fetching
    /\ \E w \in DOMAIN workers : workers[w].pc = "get"

\* the artwork urls of the programmes of a station
ArtworkOf(sid) == {ArtworkUrl(x) : x \in {y \in StationIds : y = sid}}

\* C15: whatever the interleaving, the title, the artwork url and the
\* artwork shown are those of the current station or none: what a worker
\* fetched for the station before a change is never written after it.
C15_LateResultDiscarded ==
    LET sid == current_station(Player).id
    IN  /\ program_title \in {"", sid}
        /\ program_image_url \in {""} \cup ArtworkOf(sid)
        /\ program_image \in {None} \cup ArtworkOf(sid)

\* a confirmation is pending
Armed == shutdown_confirm_at # NoTime

\* the seconds since the confirmation was asked for, at a tick d seconds
\* after the last one
Elapsed(d) == Clock(Player, d) - shutdown_confirm_at

\* C16: with a confirmation pending and its time not over, a tick that polls
\* prev or next clears the confirmation without the shutdown, and the
\* action is consumed: the station, the mode, the decoder and the queue of
\* the daemon stay as they are and no restart is made.
C16_NavigationCancels ==
    [][\A act \in {"prev", "next"}, d \in Delays :
          (Armed /\ Elapsed(d) < DEFAULT_SHUTDOWN_CONFIRM_SEC /\ TickWith(act, d))
          => /\ shutdown_confirm_at' = NoTime
             /\ poweroff' = poweroff
             /\ index' = index /\ mode' = mode /\ world_station' = world_station
             /\ world_index' = world_index
             /\ ffmpeg' = ffmpeg /\ procs' = procs /\ mpd' = mpd
             /\ state_file' = state_file
             /\ events' = << >>]_vars

\* prev or next was the last action polled, in primary mode with two
\* stations or more, and it neither restarted playback nor was refused, no
\* confirmation is pending and the shutdown was not made
C16_Witness ==
    /\ action \in {"prev", "next"} /\ events = << >>
    /\ mode = "radiko" /\ Len(stations) > 1
    /\ ~Armed /\ ~poweroff
    /\ ffmpeg \in procs

\* C17: with a confirmation pending and its time not over, a tick that
\* polls mode leaves no confirmation pending, so that a later mode cannot
\* shut down once more, and it does not toggle the mode.
C17_ConfirmReturnsToIdle ==
    [][\A d \in Delays :
          (Armed /\ Elapsed(d) < DEFAULT_SHUTDOWN_CONFIRM_SEC /\ TickWith("mode", d))
          => /\ shutdown_confirm_at' = NoTime
             /\ mode' = mode]_vars

\* C18: a tick that polls no action when the time of the pending
\* confirmation is over clears it without the shutdown, and with no
\* confirmation pending a tick that polls mode toggles the mode and does not
\* shut down.
C18_TimeoutReturnsToIdle ==
    [][\A d \in Delays :
          /\ (Armed /\ Elapsed(d) >= DEFAULT_SHUTDOWN_CONFIRM_SEC /\ TickWith(None, d))
             => (shutdown_confirm_at' = NoTime /\ poweroff' = poweroff)
          /\ (~Armed /\ action' = "mode")
             => \/ mode' # mode /\ poweroff' = poweroff /\ shutdown_confirm_at' = NoTime
                \/ ~TickWith("mode", d)]_vars

\* the confirmation asked for by the last action polled has gone by itself,
\* and nothing was shut down
C18_Witness ==
    /\ action = "shutdown" /\ events = <<"Shutdown?">>
    /\ ~Armed /\ ~poweroff /\ running

\* the events of the last restart hold e
Shown(e) == \E k \in DOMAIN events : events[k] = e

\* C19: after a restart with a url that ends with ".m3u8" and no token,
\* "radiko token missing" is what was shown last, no decoder was spawned,
\* nothing was sent to the daemon and the handle is empty.
C19_TokenMissingStartsNothing ==
    (RestartRan /\ Truthy(start_url) /\ EndsWithM3u8(start_url) /\ ~Truthy(radiko_token))
    => /\ events[Len(events)] = "radiko token missing"
       /\ ~\E e \in SpawnEvents \cup {"mpc"} : Shown(e)
       /\ ffmpeg = None
       /\ before \notin procs

\* a restart in primary mode stopped the decoder of a secondary station and
\* then found the token missing
C19_Witness ==
    /\ RestartRan /\ EndsWithM3u8(start_url) /\ ~Truthy(radiko_token)
    /\ mode = "radiko"
    /\ before # None
    /\ Shown("terminate") /\ Shown("radiko token missing")

\* the last restart started playback
PlaybackStarted == \E e \in SpawnEvents \cup {"mpc"} : Shown(e)

\* "self._radiko_token and (stream_url.endswith(".m3u8") or
\* is_radiko_stream)" for the url of the last restart
NeedsHeaders ==
    /\ Truthy(radiko_token)
    /\ \/ EndsWithM3u8(start_url)
       \/ resolver /\ IsRadikoUrl(start_url) /\ mode = "radiko"

\* the decoder was spawned with the header block, and nothing was queued
DecoderWithHeaders ==
    /\ Shown("ffmpeg") /\ ~Shown("ffmpeg_plain") /\ ~Shown("mpc")
    /\ ffmpeg # None

\* the url was handed to the daemon and no decoder was spawned
Queued ==
    /\ Shown("mpc") /\ ~Shown("ffmpeg") /\ ~Shown("ffmpeg_plain")
    /\ mpd = start_url /\ ffmpeg = None

\* C20 as stated: a restart that starts playback spawns the decoder with
\* the headers exactly when there is a token and the stream needs the
\* headers; in every other case, secondary mode included, the url is queued
\* and no decoder is spawned.
C20_DecoderOnlyWithHeaders ==
    (RestartRan /\ PlaybackStarted)
    => IF NeedsHeaders THEN DecoderWithHeaders ELSE Queued

\* C20: in secondary mode a restart that starts playback spawns the decoder
\* without headers and queues nothing; in primary mode it spawns the
\* decoder with the headers exactly when there is a token and the stream
\* needs the headers, and queues the url otherwise.
C20_DecoderByMode ==
    (RestartRan /\ PlaybackStarted)
    => IF mode = "world"
       THEN /\ Shown("ffmpeg_plain") /\ ~Shown("ffmpeg") /\ ~Shown("mpc")
            /\ ffmpeg # None
       ELSE IF NeedsHeaders THEN DecoderWithHeaders ELSE Queued

\* a secondary station plays through a decoder without headers while the
\* Player has a token
C20_Witness ==
    /\ RestartRan /\ mode = "world" /\ Truthy(radiko_token)
    /\ events[Len(events)] = "ffmpeg_plain"
    /\ ffmpeg \in procs
    /\ start_url = world_station.stream_url

(***************************************************************************)
(* SpecWorld: a Player without resolver and so without token, over a       *)
(* stations file that carries the stream urls, and a directory of two      *)
(* stations                                                                *)
(***************************************************************************)
MaxWorldHistory == 2

\* what random_station can give here: one station streams HLS
DirectoryStations ==
    WorldStations \cup { WorldStation("HlsFM", PublicHlsUrl, "https://hls.example/logo.png") }

PlayerIs(p) ==
    /\ stations = p.stations
    /\ resolver = p.resolver
    /\ index = p.index
    /\ mode = p.mode
    /\ world_station = p.world_station
    /\ world_history = p.world_history
    /\ world_index = p.world_index
    /\ shutdown_confirm_at = p.shutdown_confirm_at
    /\ stream_cache = p.stream_cache
    /\ ffmpeg = p.ffmpeg
    /\ radiko_token = p.radiko_token
    /\ now = p.now
    /\ procs = p.procs
    /\ mpd = p.mpd
    /\ state_file = p.state_file
    /\ poweroff = p.poweroff
    /\ running = p.running
    /\ action = p.action
    /\ events = p.events
    /\ before = p.before
    /\ lost = p.lost
    /\ start_url = p.start_url
    /\ client = p.r.client
    /\ station_map = p.r.station_map
    /\ selected_id = p.r.selected_id
    /\ auth_token = p.r.auth_token
    /\ area_id = p.r.area_id
    /\ auth_headers = p.r.auth_headers
    /\ stream_url_cache = p.r.cache
    /\ requests_ok = p.r.requests_ok

\* the state.json files of this specification
WorldStateFiles ==
    { NoFile, StateData("radiko", " LFR ", NoStation), StateData("world", "", NoStation),
      StateData(" world", "", WorldStation(" Jazz24 ", "http://jazz.example/live.mp3", "")),
      StateData("world", "", WorldStation("HlsFM", "", "")) }
    \cup { StateData("world", "", ws) : ws \in DirectoryStations }

InitWorld ==
    /\ InitFrame
    /\ NoProgramCall
    /\ NoWorker
    /\ NoMeta
    /\ NoDocument
    /\ NoStop
    /\ NoSelect
    /\ \E list \in {WorkerStations, << Station("QRR", "http://qrr.example/live.mp3") >>,
                     Append(WorkerStations, Station("TBS", ClientUrl("TBS")))},
          file \in WorldStateFiles, rnd \in DirectoryStations \cup {NoStation} :
         \E p \in Player__init__(list, NewResolver(FALSE, {}, TRUE), file, rnd) :
             PlayerIs(p)

WorldTick ==
    \E act \in Actions, d \in Delays : TickFrom(act, d, DirectoryStations, MaxWorldHistory)

NextWorld ==
    \/ WorldTick
    \/ DecoderExits
    \/ MainExit

SpecWorld == InitWorld /\ [][NextWorld]_vars

\* C21: without a token a restart refuses only the streams of the
\* aggregator: with the url of the stations file in primary mode or the
\* directory station's own in secondary mode, whatever it ends with, the
\* stream is started.
C21_UnauthenticatedStillPlays ==
    (RestartRan /\ ~Truthy(radiko_token) /\ Truthy(start_url) /\ ~IsRadikoUrl(start_url))
    => PlaybackStarted

(***************************************************************************)
(* SpecMeta: the Player of SpecWorld with the now-playing title of tick    *)
(*                                                                         *)
(* A title is told by what it is the title of: the id of a station for     *)
(* on_air_title, the url the daemon plays for get_mpd_title.               *)
(***************************************************************************)
\* get_mpd_title(): the title of what the daemon plays, if it tells one
get_mpd_title(p) == IF p.mpd = None THEN {""} ELSE {"", p.mpd}

\* _get_title: on_air_title of the station in primary mode with a resolver,
\* get_mpd_title() when it gives none, and in every other case
_get_title(p) ==
    IF p.mode = "radiko" /\ p.resolver
    THEN {current_station(p).id} \cup get_mpd_title(p)
    ELSE get_mpd_title(p)

\* the restart of a tick that polled act came to start playback: lines
\* 1042-1043 were reached
RestartStarted(q) ==
    \E k \in DOMAIN q.events : q.events[k] \in SpawnEvents \cup {"mpc"}

\* _last_meta and _last_meta_at when _start_current returns
meta_reset(q, title, at) ==
    IF RestartStarted(q) THEN NoTitle ELSE [title |-> title, at |-> at]

\* tick with the title: the restart, if the action makes one, then the
\* refresh when DEFAULT_METADATA_SEC have passed since _last_meta_at (due,
\* and always when _last_meta_at is 0); a tick that returns for the
\* confirmation of a shutdown does not come to it
MetaTick ==
    /\ running /\ ~poweroff
    /\ \E act \in Actions, d \in Delays, rnd \in DirectoryStations \cup {NoStation},
          due \in BOOLEAN :
         /\ rnd # NoStation => Len(world_history) < MaxWorldHistory
         /\ \E q \in tick(Player, act, d, rnd, "written") :
              LET restarted == act # None /\ \E k \in DOMAIN q.events : q.events[k] = "start"
                  left == IF restarted THEN meta_reset(q, last_meta, last_meta_at)
                          ELSE [title |-> last_meta, at |-> last_meta_at]
              IN  /\ SetPlayer(q)
                  /\ meta_left' = IF restarted THEN left ELSE NoTitle
                  /\ IF q.shutdown_confirm_at # NoTime
                     THEN UNCHANGED <<last_meta, last_meta_at>>
                     ELSE IF left.at = 0 \/ due
                     THEN last_meta' \in _get_title(q) /\ last_meta_at' = 1
                     ELSE last_meta' = left.title /\ last_meta_at' = left.at
    /\ UNCHANGED <<frameVars, handshakeVars, programVars, workerVars, xmlVars, stopVars, selectVars>>

NextMeta ==
    \/ MetaTick
    \/ DecoderExits
    \/ MainExit

SpecMeta == InitWorld /\ [][NextMeta]_vars

\* C22: whatever the outcome of a restart, _start_current leaves the cached
\* title empty and its time of refresh reset.
C22_RestartResetsMetadata == meta_left = NoTitle

Resumed ==
    UNION { Player__init__(stations, NewResolver(FALSE, {}, TRUE), state_file, rnd)
            : rnd \in DirectoryStations \cup {NoStation} }

\* C24: after a tick whose next, prev or mode restarted playback and wrote
\* the record, a new Player made from the record has the mode and the
\* current station of the Player that wrote it.
C24_ResumeRoundTrip ==
    (RestartRan /\ action \in {"prev", "next", "mode"} /\ running)
    => \A q \in Resumed :
           /\ q.mode = mode
           /\ current_station(q) = current_station(Player)

\* next_index, and prev_index, k times from i
RECURSIVE NextTimes(_, _, _)
NextTimes(k, i, n) == IF k = 0 THEN i ELSE NextTimes(k - 1, next_index(i, n), n)

RECURSIVE PrevTimes(_, _, _)
PrevTimes(k, i, n) == IF k = 0 THEN i ELSE PrevTimes(k - 1, prev_index(i, n), n)

\* the tick restarted playback for act
Restarted(act) == action' = act /\ events' # << >> /\ events'[1] = "start"

\* C25: in primary mode with N >= 2 stations a next moves the index one up
\* and a prev one down, modulo N, and each restarts playback; so N times
\* next, N times prev, next then prev and prev then next give the index
\* they started from.
C25_IndexCycles ==
    /\ [](LET N == Len(stations)
          IN  N >= 2 => /\ NextTimes(N, index, N) = index
                        /\ PrevTimes(N, index, N) = index
                        /\ prev_index(next_index(index, N), N) = index
                        /\ next_index(prev_index(index, N), N) = index)
    /\ [][\A d \in Delays :
            (mode = "radiko" /\ ~Armed /\ Len(stations) >= 2)
            => /\ TickFrom("next", d, DirectoryStations, MaxWorldHistory)
                  => (index' = (index + 1) % Len(stations) /\ Restarted("next"))
               /\ TickFrom("prev", d, DirectoryStations, MaxWorldHistory)
                  => (index' = (index + Len(stations) - 1) % Len(stations)
                      /\ Restarted("prev"))]_vars

\* next at the last of three stations: the index is back at the first
C25_Witness ==
    /\ action = "next" /\ RestartRan /\ mode = "radiko"
    /\ Len(stations) = 3 /\ index = 0

Discovered(st) ==
    /\ world_history' = Append(world_history, st)
    /\ world_index' = Len(world_history)
    /\ world_station' = st

\* nothing of the Player but the action polled has changed
NothingDone(act) ==
    /\ action' = act /\ events' = << >>
    /\ UNCHANGED <<world_history, world_index, world_station, index, mode, ffmpeg,
                   procs, mpd, state_file, start_url>>

\* C27: next in secondary mode moves the cursor one up when it is not at the
\* end, the history staying as it is; at the end it adds the station the
\* directory gives and moves to it, or does nothing when it gives none.
\* The history is only added to, and while it is not empty the cursor is
\* within it and the secondary station is the one at the cursor.
C27_HistoryCursor ==
    /\ [](world_history # << >> =>
              /\ world_index \in 0..(Len(world_history) - 1)
              /\ world_station = world_history[world_index + 1])
    /\ [][/\ Len(world_history') >= Len(world_history)
          /\ SubSeq(world_history', 1, Len(world_history)) = world_history]_vars
    /\ [][\A d \in Delays :
            (mode = "world" /\ ~Armed
             /\ TickFrom("next", d, DirectoryStations, MaxWorldHistory))
            => IF world_index + 1 < Len(world_history)
               THEN /\ world_history' = world_history
                    /\ world_index' = world_index + 1
                    /\ world_station' = world_history[world_index + 2]
                    /\ Restarted("next")
               ELSE \/ NothingDone("next")
                    \/ \E st \in DirectoryStations : Discovered(st) /\ Restarted("next")]_vars

\* next in secondary mode has made the second station of the history the
\* current one
C27_Witness ==
    /\ action = "next" /\ RestartRan /\ mode = "world"
    /\ Len(world_history) = 2 /\ world_index = 1
    /\ world_station = world_history[2]
    /\ state_file.world_name = world_station.name

\* C28: prev in secondary mode moves the cursor one down when it is not at
\* the start; at the start it adds the station the directory gives and
\* moves to it (or does nothing when the directory gives none): it does not
\* move to a station the history already holds.
C28_PrevDiscoversAtStart ==
    [][\A d \in Delays :
          (mode = "world" /\ ~Armed
           /\ TickFrom("prev", d, DirectoryStations, MaxWorldHistory))
          => IF world_index > 0
             THEN /\ world_history' = world_history
                  /\ world_index' = world_index - 1
                  /\ world_station' = world_history[world_index]
                  /\ Restarted("prev")
             ELSE \/ NothingDone("prev")
                  \/ \E st \in DirectoryStations : Discovered(st) /\ Restarted("prev")]_vars

\* C29: with no confirmation pending a mode tick swaps the mode, restarts
\* playback and writes the record; it adds a station of the directory only
\* when it enters secondary mode with no secondary station, and it leaves
\* the primary index alone, so that two of them from primary mode end in
\* primary mode on the same station.
C29_ModeToggles ==
    /\ [](mode \in {"radiko", "world"})
    /\ [][\A d \in Delays :
            (~Armed /\ TickFrom("mode", d, DirectoryStations, MaxWorldHistory))
            => /\ mode' # mode
               /\ index' = index /\ stations' = stations
               /\ Restarted("mode")
               /\ state_file'.mode = mode'
               /\ mode' = "radiko" => state_file'.station_id = PyItem(stations, index).id
               /\ IF mode = "radiko" /\ world_station = NoStation
                  THEN \/ UNCHANGED <<world_history, world_index, world_station>>
                       \/ \E st \in DirectoryStations : Discovered(st)
                  ELSE UNCHANGED <<world_history, world_index, world_station>>]_vars

\* mode has brought the Player back from a secondary station to the second
\* primary station, which the record names
C29_Witness ==
    /\ action = "mode" /\ RestartRan /\ mode = "radiko"
    /\ world_station # NoStation
    /\ index = 1
    /\ state_file.mode = "radiko" /\ state_file.station_id = stations[2].id

(***************************************************************************)
(* SpecXml: the playlist-creation endpoints of one stream XML document     *)
(* (RadikoResolver._stream_url_from_xml, lines 623-649)                    *)
(***************************************************************************)
MaxNodes == 3

\* a url node: the text of its playlist_create_url, "" when it has none,
\* and its attributes areafree and timefree
UrlNode(pcu, areafree, timefree) ==
    [pcu |-> pcu, areafree |-> areafree, timefree |-> timefree]

UrlNodes ==
    { UrlNode(pcu, fl[1], fl[2]) :
        pcu \in {"", "https://radiko.jp/v2/api/playlist_create/a",
                 "https://radiko.jp/v2/api/playlist_create/b"},
        fl \in {<<"0", "0">>, <<"1", "0">>, <<"0", "1">>} }

\* root.findall(".//url") of the documents of the model
Documents == UNION { [1..n -> UrlNodes] : n \in 0..MaxNodes }

\* areafree == "0" and timefree == "0"
IsLive(node) == node.areafree = "0" /\ node.timefree = "0"

\* the loop over url_nodes from node k on, with playlist_urls as it stands
RECURSIVE collect(_, _, _)
collect(nodes, k, playlist_urls) ==
    IF k > Len(nodes) THEN playlist_urls
    ELSE IF nodes[k].pcu = "" THEN collect(nodes, k + 1, playlist_urls)
    ELSE IF IsLive(nodes[k])
    THEN collect(nodes, k + 1, <<nodes[k].pcu>> \o playlist_urls)
    ELSE collect(nodes, k + 1, Append(playlist_urls, nodes[k].pcu))

\* the number of param_variants
NumVariants == 4

\* the calls _fetch_playlist_m3u8(pcu_url, param_variants[v]) in the order
\* of the two loops, each as <<pcu_url, v>>
AllCalls(urls) ==
    [k \in 1..(Len(urls) * NumVariants) |->
        <<urls[((k - 1) \div NumVariants) + 1], ((k - 1) % NumVariants) + 1>>]

InitXml ==
    /\ InitResolver
    /\ InitFrame
    /\ NoPlayer
    /\ NoProgramCall
    /\ NoWorker
    /\ NoMeta
    /\ NoStop
    /\ NoSelect
    /\ \E doc \in Documents :
         xml = [pc |-> "parsed", nodes |-> doc, playlist_urls |-> << >>, calls |-> << >>]

\* the endpoints are collected and tried until a call gives a playlist: the
\* call number hit, or none of them (0)
XmlCandidates ==
    /\ xml.pc = "parsed"
    /\ LET urls == collect(xml.nodes, 1, << >>)
           all == AllCalls(urls)
       IN  \E hit \in 0..Len(all) :
             xml' = [xml EXCEPT !.pc = IF hit = 0 THEN "fallback" ELSE "returned",
                                !.playlist_urls = urls,
                                !.calls = IF hit = 0 THEN all ELSE SubSeq(all, 1, hit)]
    /\ UNCHANGED <<resolverVars, frameVars, handshakeVars, playerVars, programVars,
                   workerVars, metaVars, stopVars, selectVars>>

NextXml == XmlCandidates

SpecXml == InitXml /\ [][NextXml]_vars

\* the texts of the nodes of kind live (or not) that have one, in the order
\* of the document
RECURSIVE InOrder(_, _, _)
InOrder(nodes, k, live) ==
    IF k > Len(nodes) THEN << >>
    ELSE IF nodes[k].pcu # "" /\ IsLive(nodes[k]) = live
    THEN <<nodes[k].pcu>> \o InOrder(nodes, k + 1, live)
    ELSE InOrder(nodes, k + 1, live)

\* C30: the endpoints are the live entries of the document followed by the
\* others, each group in the order of the document, and they are tried in
\* that order, each with every variant of the parameters from the first to
\* the last before the next endpoint.
C30_StableLiveFirst ==
    xml.pc \in {"fallback", "returned"}
    => /\ xml.playlist_urls = InOrder(xml.nodes, 1, TRUE) \o InOrder(xml.nodes, 1, FALSE)
       /\ \A k \in DOMAIN xml.calls :
            xml.calls[k] = <<xml.playlist_urls[((k - 1) \div NumVariants) + 1],
                             ((k - 1) % NumVariants) + 1>>

(***************************************************************************)
(* _stop_ffmpeg (lines 1313-1325), as main calls it when its loop ends     *)
(***************************************************************************)
\* SIGINT or SIGTERM: the loop ends and main stops the decoder, with the
\* outcomes of the lifecycle calls on record
StopExit ==
    /\ running
    /\ \E o \in StopOutcomes :
         LET t == stop_ffmpeg_run([Player EXCEPT !.running = FALSE, !.action = None,
                                                 !.events = << >>], o)
         IN  /\ SetPlayer(t.p)
             /\ stopped' = [ran |-> TRUE, handle |-> ffmpeg,
                            how |-> IF ffmpeg = None THEN NoOutcome ELSE o,
                            calls |-> t.calls, raised |-> t.raised]
    /\ UNCHANGED <<frameVars, handshakeVars, programVars, workerVars, metaVars, xmlVars,
                   selectVars>>

NextStop ==
    \/ WorldTick
    \/ DecoderExits
    \/ StopExit

SpecStop == InitWorld /\ [][NextStop]_vars

Called(name) == \E k \in DOMAIN stopped.calls : stopped.calls[k] = name

\* C31: _stop_ffmpeg leaves the handle empty and raises nothing, whether
\* terminate raised, the wait timed out or kill raised; and kill is called
\* only when terminate raised or the wait that was made timed out.
C31_StopClearsHandle ==
    stopped.ran =>
        /\ ffmpeg = None
        /\ stopped.raised = None
        /\ Called("kill") =>
               \/ stopped.how.terminate = "raise"
               \/ Called("wait") /\ stopped.how.wait = "timeout"

\* a decoder was held, terminate returned, the wait timed out, kill raised
C31_Witness ==
    /\ stopped.ran
    /\ stopped.handle # None
    /\ stopped.how = [terminate |-> "ok", wait |-> "timeout", kill |-> "raise"]
    /\ stopped.calls = <<"terminate", "wait", "kill">>
    /\ ffmpeg = None

(***************************************************************************)
(* SpecWorkerFair: SpecWorker with threads that are scheduled              *)
(***************************************************************************)
\* the main thread goes on inside _kick_program_update once it holds the
\* lock: the test, the assignment and Thread(...).start() return
KickGoesOn == KickTest \/ KickSet \/ KickStart

\* a step of a worker thread that waits for nothing: every call it makes
\* returns or raises (requests.get has timeout=5)
WorkerRuns ==
    \E w \in Workers :
        \/ WorkerFetch(w)
        \/ WorkerTitle(w)
        \/ WorkerImageUrl(w)
        \/ WorkerGet(w)
        \/ WorkerCheck(w)
        \/ WorkerImage(w)
        \/ WorkerClear(w)

\* "with self._program_lock:" of the worker's finally
WorkerAcquires == \E w \in Workers : WorkerLock(w)

\* The threads are scheduled: a thread that can run does. The main thread
\* holds the lock for three statements every DEFAULT_METADATA_SEC seconds
\* and sleeps between ticks, so a worker that waits for the lock gets it
\* (strong fairness).
SpecWorkerFair ==
    /\ InitWorker
    /\ [][NextWorker]_vars
    /\ WF_vars(KickGoesOn)
    /\ WF_vars(WorkerRuns)
    /\ SF_vars(WorkerAcquires)

\* C32: with the threads scheduled, a flag that _kick_program_update set is
\* cleared later, whatever path the worker takes.
C32_FlagEventuallyCleared == program_fetching ~> ~program_fetching

\* a worker that stored the artwork url and got no image (status not 200,
\* an exception, or the station changed) has ended and the flag is clear
C32_Witness ==
    /\ ~program_fetching
    /\ workers = << >>
    /\ program_image_url # ""
    /\ program_image = None

(***************************************************************************)
(* The two back-ends: the media daemon and the decoder subprocess          *)
(***************************************************************************)
LastEvent == IF events = << >> THEN None ELSE events[Len(events)]

\* C33: when a playback restart has spawned a decoder, or has refused to
\* start for want of a token, the media daemon no longer has a stream that
\* it was told to play: the daemon and a decoder never play together.
C33_OneAudioSource ==
    (RestartRan /\ LastEvent \in SpawnEvents \cup {"radiko token missing"}) => mpd = None

(***************************************************************************)
(* Player construction (Player.__init__ and _load_state)                   *)
(***************************************************************************)
\* the Player as construction left it: no tick has polled an action yet
\* and main's loop has not ended
Constructed == running /\ action = None

\* C34: construction restarts playback whether state.json was read or not:
\* after it, playback has been started or 'stream_url missing' or 'radiko
\* token missing' has been shown.
C34_ConstructionRestarts ==
    Constructed =>
        /\ RestartRan
        /\ \/ PlaybackStarted
           \/ Shown("stream_url missing")
           \/ Shown("radiko token missing")

\* the stations of a list
Range(list) == {list[k] : k \in DOMAIN list}

\* C35: in secondary mode the current station is one of the secondary
\* history and none of the primary list, also when the directory gave no
\* station at a mode toggle or at the resume.
C35_SecondaryStationCurrent ==
    mode = "world" =>
        /\ current_station(Player) \in Range(world_history)
        /\ current_station(Player) \notin Range(stations)

(***************************************************************************)
(* SpecSelect: the station selected on the native client, over calls of    *)
(* stream_url and on_air_title (lines 417-507)                             *)
(***************************************************************************)
SelectStations == {"TBS", "QRR"}

\* a resolver with a client that lists two stations
InitSelect ==
    /\ client = TRUE
    /\ requests_ok \in BOOLEAN
    /\ station_map = SelectStations
    /\ selected_id = None
    /\ auth_token = None
    /\ area_id = None
    /\ auth_headers = {}
    /\ stream_url_cache = [s \in StationIds |-> None]
    /\ InitFrame
    /\ NoPlayer
    /\ NoProgramCall
    /\ NoWorker
    /\ NoMeta
    /\ NoDocument
    /\ NoStop
    /\ NoSelect

\* _ensure_selected found self._selected_id == station_id and returned
EnsureSkipped(sid) ==
    [skipped |-> selected_id = sid, sid |-> sid, client |-> client_station]

\* stream_url(station_id) with the client's selection followed
StreamUrlSelects ==
    /\ pc = "idle"
    /\ \E sid \in SelectStations :
         \E o \in stream_url(Resolver, sid) :
             /\ SetResolver(o.r)
             /\ client_station' = o.r.selected
             /\ select_log' = IF \E k \in DOMAIN o.steps : o.steps[k].step = "client"
                              THEN EnsureSkipped(sid) ELSE select_log
             /\ op' = "stream_url"
             /\ arg' = sid
             /\ ret' = o.ret
             /\ raised' = o.raised
             /\ steps' = o.steps
    /\ UNCHANGED <<pc, log, probed, prev_ret, hs, handshakeVars, playerVars, programVars,
                   workerVars, metaVars, xmlVars, stopVars>>

\* on_air_title(station_id)
OnAirTitleCall ==
    /\ pc = "idle"
    /\ \E sid \in SelectStations :
         \E o \in on_air_title(Resolver, sid) :
             /\ SetResolver(o.r)
             /\ client_station' = o.r.selected
             /\ select_log' = EnsureSkipped(sid)
             /\ op' = "on_air_title"
             /\ arg' = sid
             /\ ret' = o.ret
             /\ raised' = FALSE
             /\ steps' = << >>
    /\ UNCHANGED <<pc, log, probed, prev_ret, hs, handshakeVars, playerVars, programVars,
                   workerVars, metaVars, xmlVars, stopVars>>

NextSelect == StreamUrlSelects \/ OnAirTitleCall

SpecSelect == InitSelect /\ [][NextSelect]_vars

\* C36: a non-empty _selected_id names the station that is selected on the
\* client: when _ensure_selected skips the selection of a station because
\* _selected_id is that station, the client has that station selected.
C36_SelectedIdIsClientStation ==
    /\ Truthy(selected_id) => client_station = selected_id
    /\ select_log.skipped => select_log.client = select_log.sid

(***************************************************************************)
(* The shutdown confirmation once its time is over                         *)
(***************************************************************************)
\* C37: a tick that polls mode when the time of the pending confirmation
\* is over, however the ticks since the arming were spaced, does not shut
\* down.
C37_NoShutdownAfterTimeout ==
    [][\A d \in Delays :
          (Armed /\ Elapsed(d) >= DEFAULT_SHUTDOWN_CONFIRM_SEC /\ TickWith("mode", d))
          => poweroff' = poweroff]_vars

(***************************************************************************)
(* The token of the Player and the token of the resolver                   *)
(***************************************************************************)
\* C38: a playback restart made while the resolver holds a token does not
\* report 'radiko token missing', also when the resolver got its token
\* after the Player was constructed, while it resolved a stream.
C38_TokenFollowsResolver ==
    (RestartRan /\ resolver /\ Truthy(auth_token)) => ~Shown("radiko token missing")

(***************************************************************************)
(* SpecHeaders: a primary list with a station of the aggregator and a      *)
(* station that carries the url of an HLS playlist of its own              *)
(***************************************************************************)
HeaderStations == << Station("TBS", ""), Station("HlsFM", PublicHlsUrl) >>

\* the Player of main with a client that lists TBS
InitHeaders ==
    /\ InitFrame
    /\ NoProgramCall
    /\ NoWorker
    /\ NoMeta
    /\ NoDocument
    /\ NoStop
    /\ NoSelect
    /\ \E file \in StateFiles \cup {StateData("radiko", "HlsFM", NoStation)},
          rnd \in WorldStations \cup {NoStation} :
         \E p \in Player__init__(HeaderStations, NewResolver(TRUE, {"TBS"}, TRUE),
                                 file, rnd) :
             PlayerIs(p)

SpecHeaders == InitHeaders /\ [][Next]_vars

\* C39: a decoder is given the auth header block (the "-headers" of
\* _start_ffmpeg) only in primary mode and only for a url of the
\* aggregator.
C39_HeadersOnlyForAggregator ==
    (RestartRan /\ LastEvent = "ffmpeg") => (mode # "world" /\ IsRadikoUrl(start_url))
====
